---- MODULE Spec2Model ----
(***************************************************************************)
(* Wallet-record decoding and key reconstruction of btcrec-cli:            *)
(*   bitcoin2john.py   BCDataStream, base58, parse_wallet, read_wallet,    *)
(*                     generate_john_hash, bitcoin2john, the raw device    *)
(*                     scanner (first_read ... read_keys)                  *)
(*   pywallet.py       WalletDumper                                        *)
(*   pywallet_full.py  EllipticCurveCrypto, ComprehensiveWalletManager     *)
(*   P2TR_tools.py     _P2TRUtils (TaggedHash, LiftX, TweakPublicKey)      *)
(*                                                                         *)
(* Byte strings are sequences of 0..255.  A Python call is an operator     *)
(* returning [exc, val, ...]; exc = "none" is a normal return, any other   *)
(* value is the name of the exception that leaves the call.                *)
(***************************************************************************)
EXTENDS Integers, Sequences, FiniteSets, TLC

VARIABLES
    stream, last,                                \* a BCDataStream and its last read
    phase, consumer, db, idx, delivered,         \* one parse_wallet run
    json_db, wallet_data, john,                  \* the snapshots and the hash
    addrtype, network, passphrase,               \* module global, manager fields
    rec_key, rec_out,                            \* one recovered key being processed
    device, scan                                 \* a raw device and the scanner's passes

vars == <<stream, last, phase, consumer, db, idx, delivered, json_db, wallet_data,
          john, addrtype, network, passphrase, rec_key, rec_out, device, scan>>

streamVars == <<stream, last>>
walletVars == <<phase, consumer, db, idx, delivered, json_db, wallet_data,
                john, addrtype, network, passphrase>>
scanVars == <<device, scan>>
recoverVars == <<rec_key, rec_out, device, scan>>

-----------------------------------------------------------------------------
(* Bounds *)

MaxStreamLen == 4
MaxPairs == 3

-----------------------------------------------------------------------------
(* Python helpers *)

Min(a, b) == IF a < b THEN a ELSE b

\* s[a:b] for 0 <= a, 0 <= b: clipped to the sequence, never an error
Slice(s, a, b) == SubSeq(s, a + 1, Min(b, Len(s)))

NoExc(v) == [exc |-> "none", val |-> v]
Raise(e) == [exc |-> e, val |-> <<>>]

\* a dict with no entry; None and the empty str or bytes
EmptyDict == <<>>
IsEmptyDict(m) == DOMAIN m = {}
None == <<>>
Some(v) == <<v>>

\* bytes([b]) * n
Repeat(b, n) == [i \in 1..n |-> b]

\* little-endian unsigned value of a byte string (struct '<H', '<I', '<Q')
RECURSIVE LEUnsigned(_)
LEUnsigned(bs) ==
    IF bs = <<>> THEN 0 ELSE Head(bs) + 256 * LEUnsigned(Tail(bs))

\* little-endian two's-complement value (struct '<h', '<i', '<q')
RECURSIVE LESigned(_)
LESigned(bs) ==
    IF Len(bs) = 1
    THEN (IF Head(bs) >= 128 THEN Head(bs) - 256 ELSE Head(bs))
    ELSE Head(bs) + 256 * LESigned(Tail(bs))

\* struct.calcsize of the six formats the stream uses
calcsize(fmt) ==
    CASE fmt \in {"<h", "<H"} -> 2
      [] fmt \in {"<i", "<I"} -> 4
      [] fmt \in {"<q", "<Q"} -> 8

\* struct.pack: little-endian bytes of a non-negative number
RECURSIVE LEBytes(_, _)
LEBytes(num, n) ==
    IF n = 0 THEN <<>> ELSE <<num % 256>> \o LEBytes(num \div 256, n - 1)

-----------------------------------------------------------------------------
(* BCDataStream *)

\* __init__ / clear: input = None, read_cursor = 0
NewStream == [input |-> <<>>, isnone |-> TRUE, read_cursor |-> 0]

\* write
write(s, bytes_data) ==
    IF s.isnone
    THEN [s EXCEPT !.input = bytes_data, !.isnone = FALSE]
    ELSE [s EXCEPT !.input = s.input \o bytes_data]

\* read_bytes: the slice never raises on a bytes object, so the except
\* clause is reached only when input is None (TypeError)
read_bytes(s, length) ==
    IF s.isnone
    THEN [exc |-> "SerializationError", val |-> <<>>, s |-> s]
    ELSE [exc |-> "none",
          val |-> Slice(s.input, s.read_cursor, s.read_cursor + length),
          s   |-> [s EXCEPT !.read_cursor = s.read_cursor + length]]

\* _read_num: struct.unpack_from needs calcsize bytes at read_cursor
_read_num(s, fmt) ==
    IF s.isnone
    THEN [exc |-> "TypeError", val |-> 0, s |-> s]
    ELSE IF Len(s.input) - s.read_cursor < calcsize(fmt)
    THEN [exc |-> "SerializationError", val |-> 0, s |-> s]
    ELSE LET raw == Slice(s.input, s.read_cursor, s.read_cursor + calcsize(fmt))
         IN [exc |-> "none",
             val |-> IF fmt \in {"<h", "<i", "<q"} THEN LESigned(raw)
                                                   ELSE LEUnsigned(raw),
             s   |-> [s EXCEPT !.read_cursor = s.read_cursor + calcsize(fmt)]]

\* Python integers are unbounded and those here have 32 bits: where a
\* size may need more, it is kept as its little-endian base-256 digits
\* without high zero digits (0 is the empty sequence)
RECURSIVE WideOf(_)
WideOf(num) ==
    IF num = 0 THEN <<>> ELSE <<num % 256>> \o WideOf(num \div 256)

RECURSIVE Canonical(_)
Canonical(digits) ==
    IF digits # <<>> /\ digits[Len(digits)] = 0
    THEN Canonical(SubSeq(digits, 1, Len(digits) - 1))
    ELSE digits

\* _read_num for the unsigned formats, the value as digits
_read_num_wide(s, fmt) ==
    IF s.isnone
    THEN [exc |-> "TypeError", val |-> <<>>, s |-> s]
    ELSE IF Len(s.input) - s.read_cursor < calcsize(fmt)
    THEN [exc |-> "SerializationError", val |-> <<>>, s |-> s]
    ELSE [exc |-> "none",
          val |-> Canonical(Slice(s.input, s.read_cursor,
                                  s.read_cursor + calcsize(fmt))),
          s   |-> [s EXCEPT !.read_cursor = s.read_cursor + calcsize(fmt)]]

\* read_compact_size, the size as digits
read_compact_size_wide(s) ==
    IF s.isnone \/ s.input = <<>> \/ s.read_cursor >= Len(s.input)
    THEN [exc |-> "SerializationError", val |-> <<>>, s |-> s]
    ELSE LET size == s.input[s.read_cursor + 1]
             s1   == [s EXCEPT !.read_cursor = s.read_cursor + 1]
         IN CASE size = 253 -> _read_num_wide(s1, "<H")
              [] size = 254 -> _read_num_wide(s1, "<I")
              [] size = 255 -> _read_num_wide(s1, "<Q")
              [] OTHER      -> [exc |-> "none", val |-> WideOf(size), s |-> s1]

\* read_compact_size, for the sizes that fit the integers
narrow(r) == [exc |-> r.exc, val |-> LEUnsigned(r.val), s |-> r.s]

read_compact_size(s) == narrow(read_compact_size_wide(s))

\* read_string: read_bytes of the length read_compact_size returned
read_bytes_of(n) ==
    IF n.exc # "none" THEN [exc |-> n.exc, val |-> <<>>, s |-> n.s]
    ELSE read_bytes(n.s, n.val)

read_string(s) == read_bytes_of(read_compact_size(s))

\* read_boolean: read_bytes(1)[0] != 0
first_byte_set(r) ==
    IF r.exc # "none" THEN [exc |-> r.exc, val |-> FALSE, s |-> r.s]
    ELSE IF r.val = <<>> THEN [exc |-> "IndexError", val |-> FALSE, s |-> r.s]
    ELSE [exc |-> "none", val |-> r.val[1] # 0, s |-> r.s]

read_boolean(s) == first_byte_set(read_bytes(s, 1))

\* struct.pack of an unsigned number given as digits: n bytes
pack_wide(size, n) == [i \in 1..n |-> IF i <= Len(size) THEN size[i] ELSE 0]

\* write_compact_size with the first test written size <= 253
write_compact_size_le253(s, size) ==
    IF Len(size) = 0 \/ (Len(size) = 1 /\ size[1] <= 253)
    THEN write(s, <<LEUnsigned(size)>>)
    ELSE IF Len(size) <= 2 THEN write(s, <<253>> \o pack_wide(size, 2))
    ELSE IF Len(size) <= 4 THEN write(s, <<254>> \o pack_wide(size, 4))
    ELSE IF Len(size) <= 8 THEN write(s, <<255>> \o pack_wide(size, 8))
    ELSE s

\* write_compact_size of a size >= 0 given as digits; a size of 2 ** 64 or
\* more meets no branch and nothing is written
write_compact_size_wide(s, size) ==
    IF Len(size) = 0 \/ (Len(size) = 1 /\ size[1] < 253)
    THEN write(s, <<LEUnsigned(size)>>)
    ELSE IF Len(size) <= 2 THEN write(s, <<253>> \o pack_wide(size, 2))
    ELSE IF Len(size) <= 4 THEN write(s, <<254>> \o pack_wide(size, 4))
    ELSE IF Len(size) <= 8 THEN write(s, <<255>> \o pack_wide(size, 8))
    ELSE s

\* write_compact_size, for the sizes that fit the integers
write_compact_size(s, size) == write_compact_size_wide(s, WideOf(size))

\* write_string
write_string(s, string) == write(write_compact_size(s, Len(string)), string)

\* _write_num
_write_num(s, fmt, num) == write(s, LEBytes(num, calcsize(fmt)))

-----------------------------------------------------------------------------
(* Specification SpecStream: one BCDataStream driven by its callers *)

StreamOps == {"read_bytes", "read_string", "read_boolean", "read_compact_size",
              "read_int16", "read_uint16", "read_int32", "read_uint32",
              "read_int64", "read_uint64"}

FormatOf(op) ==
    CASE op = "read_int16"  -> "<h"
      [] op = "read_uint16" -> "<H"
      [] op = "read_int32"  -> "<i"
      [] op = "read_uint32" -> "<I"
      [] op = "read_int64"  -> "<q"
      [] op = "read_uint64" -> "<Q"

\* bytes written by the callers of write(); bytes >= 128 stay in the first
\* three positions so that every 32-bit value read back fits the integers
StreamBytes == {0, 1, 2, 253}

Remaining(s) == IF s.isnone THEN 0 ELSE
                IF s.read_cursor >= Len(s.input) THEN 0
                ELSE Len(s.input) - s.read_cursor

\* bytes a compact-size needs at the cursor: the prefix and its escape width
CompactNeed(s) ==
    IF Remaining(s) = 0 THEN 1
    ELSE LET p == s.input[s.read_cursor + 1]
         IN 1 + (CASE p = 253 -> 2 [] p = 254 -> 4 [] p = 255 -> 8 [] OTHER -> 0)

\* bytes the operation needs at the cursor, by the wire format
Needed(op, arg, s) ==
    CASE op = "read_bytes"        -> arg
      [] op = "read_boolean"      -> 1
      [] op = "read_compact_size" -> CompactNeed(s)
      [] op = "read_string"       ->
            IF Remaining(s) < CompactNeed(s) THEN CompactNeed(s)
            ELSE CompactNeed(s) + read_compact_size(s).val
      [] OTHER                    -> calcsize(FormatOf(op))

NoRead == [op |-> "none", n |-> 0, short |-> FALSE, exc |-> "none", val |-> <<>>]

IdleStream == stream = NewStream /\ last = NoRead

StreamWrite(b) ==
    /\ Len(stream.input) < MaxStreamLen
    /\ (b < 128 \/ Len(stream.input) < 3)
    /\ stream' = write(stream, <<b>>)
    /\ last' = NoRead
    /\ UNCHANGED <<walletVars, recoverVars>>

StreamClear ==
    /\ ~stream.isnone
    /\ stream' = NewStream
    /\ last' = NoRead
    /\ UNCHANGED <<walletVars, recoverVars>>

StreamCall(op, arg) ==
    CASE op = "read_bytes"        -> read_bytes(stream, arg)
      [] op = "read_string"       -> read_string(stream)
      [] op = "read_boolean"      -> read_boolean(stream)
      [] op = "read_compact_size" -> read_compact_size(stream)
      [] OTHER                    -> _read_num(stream, FormatOf(op))

StreamRead(op, arg) ==
    /\ stream.read_cursor <= MaxStreamLen
    /\ LET r == StreamCall(op, arg)
       IN /\ stream' = r.s
          /\ last' = [op    |-> op,
                      n     |-> arg,
                      short |-> Remaining(stream) < Needed(op, arg, stream),
                      exc   |-> r.exc,
                      val   |-> IF r.exc = "none" THEN r.val ELSE <<>>]
    /\ UNCHANGED <<walletVars, recoverVars>>

ReadBytes   == \E n \in 0..MaxStreamLen : StreamRead("read_bytes", n)
ReadString  == StreamRead("read_string", 0)
ReadBoolean == StreamRead("read_boolean", 0)
ReadCompactSize == StreamRead("read_compact_size", 0)
ReadNum     == \E op \in StreamOps \ {"read_bytes", "read_string", "read_boolean",
                                      "read_compact_size"} : StreamRead(op, 0)

-----------------------------------------------------------------------------
(* Encoding primitives (bitcoin2john.py) *)

\* The library digests (hashlib sha256, ripemd160, hmac-sha512) are outside
\* the repository.  Each is a fixed deterministic function of its input,
\* here a running checksum expanded to the digest width; the widths of the
\* two address digests are shortened.
HashLen == 4
H160Len == 2

\* the running checksum: seed and bytes as the digits of a number in base 33,
\* modulo 32749, computed by halves
RECURSIVE pow(_, _, _)
pow(b, e, m) ==
    IF e = 0 THEN 1 % m
    ELSE LET h == pow(b, e \div 2, m)
             sq == (h * h) % m
         IN IF e % 2 = 1 THEN (sq * (b % m)) % m ELSE sq

RECURSIVE AbsorbRange(_, _, _)
AbsorbRange(data, lo, hi) ==
    IF lo > hi THEN 0
    ELSE IF lo = hi THEN (data[lo] + 1) % 32749
    ELSE LET mid == (lo + hi) \div 2
         IN (AbsorbRange(data, lo, mid) * pow(33, hi - mid, 32749)
             + AbsorbRange(data, mid + 1, hi)) % 32749

Absorb(data, seed) ==
    (seed * pow(33, Len(data), 32749) + AbsorbRange(data, 1, Len(data))) % 32749

\* the digest bytes drawn from the checksum
Squeeze(h, n) == [i \in 1..n |-> (((h * 31 + i * 17) % 32749) * (i + 3)) % 256]

Digest(data, seed, n) == Squeeze(Absorb(data, seed), n)

sha256(data) == Digest(data, 256, HashLen)

\* Hash: double SHA256
Hash(data) == sha256(sha256(data))

\* hash_160: RIPEMD160(SHA256(public_key))
hash_160(public_key) == Digest(sha256(public_key), 160, H160Len)

\* A Python str is a sequence of one-character strings.
hexchars == <<"0", "1", "2", "3", "4", "5", "6", "7",
              "8", "9", "a", "b", "c", "d", "e", "f">>

\* binascii.hexlify(...).decode(): two hex digits per byte
hexlify(bs) ==
    [i \in 1..(2 * Len(bs)) |->
        IF i % 2 = 1 THEN hexchars[(bs[(i + 1) \div 2] \div 16) + 1]
                     ELSE hexchars[(bs[i \div 2] % 16) + 1]]

HexValue(c) == (CHOOSE i \in 1..16 : hexchars[i] = c) - 1

\* binascii.unhexlify on an even-length string of hex digits
unhexlify(hs) ==
    [i \in 1..(Len(hs) \div 2) |-> HexValue(hs[2 * i - 1]) * 16 + HexValue(hs[2 * i])]

b58chars ==
    <<
      "1", "2", "3", "4", "5", "6", "7", "8", "9", "A", "B", "C", "D",
      "E", "F", "G", "H", "J", "K", "L", "M", "N", "P", "Q", "R", "S",
      "T", "U", "V", "W", "X", "Y", "Z", "a", "b", "c", "d", "e", "f",
      "g", "h", "i", "j", "k", "m", "n", "o", "p", "q", "r", "s", "t",
      "u", "v", "w", "x", "y", "z"
    >>

b58base == Len(b58chars)

\* Python integers are unbounded: long_value is kept as its big-endian
\* base-256 digits without leading zeros
RECURSIVE StripZeros(_)
StripZeros(bs) ==
    IF bs # <<>> /\ Head(bs) = 0 THEN StripZeros(Tail(bs)) ELSE bs

\* divmod(long_value, d) by long division, d <= 256
RECURSIVE DivModStep(_, _, _, _)
DivModStep(bs, d, rem, q) ==
    IF bs = <<>> THEN [div |-> StripZeros(q), mod |-> rem]
    ELSE LET cur == rem * 256 + Head(bs)
         IN DivModStep(Tail(bs), d, cur % d, Append(q, cur \div d))

divmod(long_value, d) == DivModStep(long_value, d, 0, <<>>)

\* long_value >= d for d <= 256
AtLeast(long_value, d) ==
    Len(long_value) > 1 \/ (Len(long_value) = 1 /\ long_value[1] >= d)

SmallValue(long_value) == IF long_value = <<>> THEN 0 ELSE long_value[1]

RECURSIVE b58digits(_)
b58digits(long_value) ==
    IF AtLeast(long_value, b58base)
    THEN LET dm == divmod(long_value, b58base)
         IN Append(b58digits(dm.div), b58chars[dm.mod + 1])
    ELSE <<b58chars[SmallValue(long_value) + 1]>>

RECURSIVE LeadingCount(_, _)
LeadingCount(v, c) ==
    IF v # <<>> /\ Head(v) = c THEN 1 + LeadingCount(Tail(v), c) ELSE 0

\* b58encode: returns a str (a sequence of characters)
b58encode(v) ==
    Repeat(b58chars[1], LeadingCount(v, 0)) \o b58digits(StripZeros(v))

\* hash_160_to_bc_address, with the module global addrtype as argument
hash_160_to_bc_address(h160, addrtype_) ==
    LET vh160 == <<addrtype_>> \o h160
        h     == Hash(vh160)
        addr  == vh160 \o Slice(h, 0, 4)
    IN b58encode(addr)

\* public_key_to_bc_address
public_key_to_bc_address(public_key, addrtype_) ==
    hash_160_to_bc_address(hash_160(public_key), addrtype_)

\* __b58chars.find(c): the index of c in the alphabet, -1 when absent
RECURSIVE b58find_from(_, _)
b58find_from(c, i) ==
    IF i > b58base THEN -1
    ELSE IF b58chars[i] = c THEN i - 1
    ELSE b58find_from(c, i + 1)

b58find(c) == b58find_from(c, 1)

\* long_value * m + carry on the base-256 digits, m <= 256
RECURSIVE MulAdd(_, _, _)
MulAdd(long_value, m, carry) ==
    IF long_value = <<>> THEN (IF carry = 0 THEN <<>> ELSE <<carry>>)
    ELSE Append(MulAdd(SubSeq(long_value, 1, Len(long_value) - 1), m,
                       (long_value[Len(long_value)] * m + carry) \div 256),
                (long_value[Len(long_value)] * m + carry) % 256)

\* long_value += __b58chars.find(c) * (__b58base ** i) over v[::-1], for
\* the strings over the alphabet (find(c) >= 0)
RECURSIVE b58value(_)
b58value(v) ==
    IF v = <<>> THEN <<>>
    ELSE MulAdd(b58value(SubSeq(v, 1, Len(v) - 1)), b58base, b58find(v[Len(v)]))

\* while long_value >= 256: result = bytes([mod]) + result, and the last
\* digit, a zero byte when long_value is 0
RECURSIVE b256digits(_)
b256digits(long_value) ==
    IF AtLeast(long_value, 256)
    THEN Append(b256digits(divmod(long_value, 256).div), divmod(long_value, 256).mod)
    ELSE <<SmallValue(long_value)>>

\* the tail of b58decode: the length test
checked_length(result, length) ==
    IF length # None /\ Len(result) # length[1] THEN None ELSE Some(result)

\* b58decode(v, length): None or the bytes; length is None or Some(n)
b58decode(v, length) ==
    checked_length(Repeat(0, LeadingCount(v, b58chars[1]))
                   \o b256digits(StripZeros(b58value(v))),
                   length)

-----------------------------------------------------------------------------
(* The raw device scanner (bitcoin2john.py) *)

\* the key detection patterns
prekeys == << <<48, 130, 1, 19, 2, 1, 1, 4, 32>>, <<48, 130, 1, 18, 2, 1, 1, 4, 32>> >>
postkeys == << <<160, 129, 165, 48>>, <<129, 165, 48>> >>

\* len(prekey) + 1, with prekey = prekeys[0]
PrekeyPad == Len(prekeys[1]) + 1

\* a device is its bytes and the offsets at which a read fails; os.read of
\* n bytes at pos raises OSError when it meets such an offset, and else
\* returns the bytes up to the end of the device
os_read(dev, pos, n) ==
    IF \E o \in dev.bad : pos <= o /\ o < pos + n /\ o < Len(dev.data)
    THEN Raise("OSError(EIO)")
    ELSE NoExc(Slice(dev.data, pos, pos + n))

\* os.lseek(fd, pos, 0) refuses a negative position
lseek_fails(pos) == pos < 0

\* i in string, for bytes
contains_bytes(string, i) ==
    \E k \in 0..(Len(string) - Len(i)) : SubSeq(string, k + 1, k + Len(i)) = i

one_element_in(a, string) ==
    \E i \in 1..Len(a) : contains_bytes(string, a[i])

check_postkeys(key, postkeys_) ==
    \E i \in 1..Len(postkeys_) : Slice(key, 0, Len(postkeys_[i])) = postkeys_[i]

\* first_read: the loop over the blocks of inc bytes.  The file position
\* is i at every read: a read moves it by inc, and after a failed read
\* os.lseek(fd, inc, os.SEEK_CUR) does
RECURSIVE first_read_loop(_, _, _, _, _, _)
first_read_step(dev, size, inc, i, before_contained_key, ranges, data) ==
    IF data.exc # "none"
    THEN first_read_loop(dev, size, inc, i + inc, before_contained_key, ranges)
    ELSE first_read_loop(dev, size, inc, i + inc,
                         one_element_in(prekeys, data.val),
                         IF before_contained_key # one_element_in(prekeys, data.val)
                         THEN Append(ranges, i) ELSE ranges)

first_read_loop(dev, size, inc, i, before_contained_key, ranges) ==
    IF i >= size THEN ranges
    ELSE first_read_step(dev, size, inc, i, before_contained_key, ranges,
                         os_read(dev, i, inc))

first_read(dev, size, inc) == first_read_loop(dev, size, inc, 0, FALSE, <<>>)

\* the first elements of the pairs of mini_blocks: k = bi, bi + inc, ...
\* while k <= bf + len(prekey) + 1
mini_blocks(bi, bf, inc) ==
    IF bf + PrekeyPad < bi THEN <<>>
    ELSE [n \in 1..(((bf + PrekeyPad - bi) \div inc) + 1) |-> bi + (n - 1) * inc]

\* shrink_intervals: the loop over the mini blocks of one interval; each
\* block is widened by len(prekey) + 1 on both sides, sought and read
RECURSIVE shrink_blocks(_, _, _, _, _, _)
shrink_blocks_step(dev, inc, starts, k, before_contained_key, nranges, data) ==
    IF data.exc # "none" THEN Raise(data.exc)
    ELSE shrink_blocks(dev, inc, starts, k + 1,
            one_element_in(prekeys, data.val),
            IF ~before_contained_key /\ one_element_in(prekeys, data.val)
            THEN Append(nranges, starts[k] - PrekeyPad)
            ELSE IF before_contained_key /\ ~one_element_in(prekeys, data.val)
            THEN Append(nranges, starts[k] - PrekeyPad + PrekeyPad + PrekeyPad)
            ELSE nranges)

shrink_blocks(dev, inc, starts, k, before_contained_key, nranges) ==
    IF k > Len(starts) THEN NoExc(nranges)
    ELSE IF lseek_fails(starts[k] - PrekeyPad) THEN Raise("OSError(EINVAL)")
    ELSE shrink_blocks_step(dev, inc, starts, k, before_contained_key, nranges,
            os_read(dev, starts[k] - PrekeyPad,
                    (starts[k] + inc + PrekeyPad) - (starts[k] - PrekeyPad) + 1))

\* shrink_intervals: the loop over the pairs of ranges
RECURSIVE shrink_ranges(_, _, _, _, _)
shrink_ranges_next(dev, ranges, inc, j, r) ==
    IF r.exc # "none" THEN r ELSE shrink_ranges(dev, ranges, inc, j + 1, r.val)

shrink_ranges(dev, ranges, inc, j, nranges) ==
    IF j >= Len(ranges) \div 2 THEN NoExc(nranges)
    ELSE shrink_ranges_next(dev, ranges, inc, j,
            shrink_blocks(dev, inc,
                          mini_blocks(ranges[2 * j + 1], ranges[2 * j + 2], inc),
                          1, FALSE, nranges))

shrink_intervals(dev, ranges, inc) == shrink_ranges(dev, ranges, inc, 0, <<>>)

\* find_offsets: buf after the n-th read of one byte from bi on; a read at
\* the end of the device returns b'' and buf gets shorter
buf_after(dev, bi, n) ==
    Slice(Repeat(0, Len(prekeys[1])) \o Slice(dev.data, bi, bi + n), n,
          Len(prekeys[1]) + n)

\* the offsets curs in bi..bf at which buf is one of the prekeys
offsets_between(dev, bi, bf) ==
    SelectSeq([c \in 1..(bf - bi + 1) |-> bi + c - 1],
              LAMBDA curs : \E p \in 1..Len(prekeys) :
                               buf_after(dev, bi, curs - bi + 1) = prekeys[p])

\* find_offsets: the loop over the pairs of ranges; val = [to_read, list_offsets]
RECURSIVE find_offsets_loop(_, _, _, _, _)
find_offsets_loop(dev, ranges, i, to_read, list_offsets) ==
    IF i >= Len(ranges) \div 2 THEN NoExc(<<to_read, list_offsets>>)
    ELSE IF lseek_fails(ranges[2 * i + 1] - PrekeyPad) THEN Raise("OSError(EINVAL)")
    ELSE IF os_read(dev, ranges[2 * i + 1] - PrekeyPad,
                    (ranges[2 * i + 2] + PrekeyPad)
                       - (ranges[2 * i + 1] - PrekeyPad) + 1).exc # "none"
    THEN Raise("OSError(EIO)")
    ELSE find_offsets_loop(dev, ranges, i + 1,
            to_read + (ranges[2 * i + 2] + PrekeyPad)
                       - (ranges[2 * i + 1] - PrekeyPad) + 1,
            list_offsets \o offsets_between(dev, ranges[2 * i + 1] - PrekeyPad,
                                            ranges[2 * i + 2] + PrekeyPad))

find_offsets(dev, ranges) == find_offsets_loop(dev, ranges, 0, 0, <<>>)

\* the test of read_keys without hexkey not in found_hexkeys
accepted_key_again(data, found_hexkeys) ==
    check_postkeys(unhexlify(hexlify(Slice(data, 33, 39))), postkeys)

\* read_keys: the test on the 40 bytes read at offset + 1
accepted_key(data, found_hexkeys) ==
    /\ \A n \in 1..Len(found_hexkeys) : found_hexkeys[n] # hexlify(Slice(data, 1, 33))
    /\ check_postkeys(unhexlify(hexlify(Slice(data, 33, 39))), postkeys)

\* read_keys: the loop over list_offsets
RECURSIVE read_keys_loop(_, _, _, _)
read_keys_step(dev, list_offsets, n, found_hexkeys, data) ==
    IF data.exc # "none" THEN Raise(data.exc)
    ELSE read_keys_loop(dev, list_offsets, n + 1,
            IF accepted_key(data.val, found_hexkeys)
            THEN Append(found_hexkeys, hexlify(Slice(data.val, 1, 33)))
            ELSE found_hexkeys)

read_keys_loop(dev, list_offsets, n, found_hexkeys) ==
    IF n > Len(list_offsets) THEN NoExc(found_hexkeys)
    ELSE read_keys_step(dev, list_offsets, n, found_hexkeys,
                        os_read(dev, list_offsets[n] + 1, 40))

read_keys(dev, list_offsets) == read_keys_loop(dev, list_offsets, 1, <<>>)

-----------------------------------------------------------------------------
(* EllipticCurveCrypto (pywallet_full.py) *)

\* secp256k1 is y^2 = x^3 + 7 over a 256-bit prime field, with a group of
\* prime order N and P = 3 (mod 4).  The integers here are 32 bits wide, so
\* the parameters are those of the curve of the same equation and the same
\* properties over a one-byte field.
P == 163
N == 139
A == 0
B == 7
Gx == 2
Gy == 34
G == <<Gx, Gy>>

\* None, for a point
Infinity == <<>>

\* point_add
point_add(p1, p2) ==
    IF p1 = Infinity THEN p2
    ELSE IF p2 = Infinity THEN p1
    ELSE LET x1 == p1[1]
             y1 == p1[2]
             x2 == p2[1]
             y2 == p2[2]
         IN IF x1 = x2 /\ y1 # y2 THEN Infinity
            ELSE LET s == IF x1 = x2
                          THEN ((3 * x1 * x1) * pow(2 * y1, P - 2, P)) % P
                          ELSE ((y2 - y1) * pow(x2 - x1, P - 2, P)) % P
                     x3 == (s * s - x1 - x2) % P
                     y3 == (s * (x1 - x3) - y1) % P
                 IN <<x3, y3>>

\* the while loop of point_multiply
RECURSIVE point_multiply_loop(_, _, _)
point_multiply_loop(k, result, addend) ==
    IF k = 0 THEN result
    ELSE point_multiply_loop(k \div 2,
                             IF k % 2 = 1 THEN point_add(result, addend) ELSE result,
                             point_add(addend, addend))

\* point_multiply with result starting as the point instead of None
point_multiply_from_point(k, point) ==
    IF k = 0 THEN Infinity
    ELSE IF k = 1 THEN point
    ELSE point_multiply_loop(k, point, point)

\* point_multiply
point_multiply(k, point) ==
    IF k = 0 THEN Infinity
    ELSE IF k = 1 THEN point
    ELSE point_multiply_loop(k, Infinity, point)

\* int.from_bytes(bs, 'big')
RECURSIVE from_bytes_acc(_, _)
from_bytes_acc(bs, acc) ==
    IF bs = <<>> THEN acc ELSE from_bytes_acc(Tail(bs), acc * 256 + Head(bs))

from_bytes(bs) == from_bytes_acc(bs, 0)

\* x.to_bytes(n, 'big') for 0 <= x < 2^31: the bytes above the fourth are 0
to_bytes(x, n) ==
    [i \in 1..n |-> IF n - i >= 4 THEN 0 ELSE (x \div (256 ^ (n - i))) % 256]

\* private_key_to_public_key
private_key_to_public_key(private_key_bytes) ==
    LET private_key_int  == from_bytes(private_key_bytes)
        public_key_point == point_multiply(private_key_int, G)
    IN IF public_key_point = Infinity THEN Raise("ValueError")
       ELSE NoExc(<<4>> \o to_bytes(public_key_point[1], 32)
                        \o to_bytes(public_key_point[2], 32))

\* compress_public_key with the prefix of an even Y for every key
compress_public_key_even(public_key_bytes) ==
    IF Len(public_key_bytes) = 33 THEN NoExc(public_key_bytes)
    ELSE IF Len(public_key_bytes) # 65 \/ public_key_bytes[1] # 4
    THEN Raise("ValueError")
    ELSE NoExc(<<2>> \o to_bytes(from_bytes(Slice(public_key_bytes, 1, 33)), 32))

\* compress_public_key
compress_public_key(public_key_bytes) ==
    IF Len(public_key_bytes) = 33 THEN NoExc(public_key_bytes)
    ELSE IF Len(public_key_bytes) # 65 \/ public_key_bytes[1] # 4
    THEN Raise("ValueError")
    ELSE LET x == from_bytes(Slice(public_key_bytes, 1, 33))
             y == from_bytes(Slice(public_key_bytes, 33, 65))
             prefix == IF y % 2 = 0 THEN 2 ELSE 3
         IN NoExc(<<prefix>> \o to_bytes(x, 32))

-----------------------------------------------------------------------------
(* _P2TRUtils (lib/p2tr_helper/P2TR_tools.py) with the coincurve.PublicKey *)
(* operations it calls                                                    *)

\* A coincurve.PublicKey is its point() = <<x, y>>.

\* P2TRConst.FIELD_SIZE, the field of the curve above
FIELD_SIZE == P

\* P2TRConst.TAP_TWEAK_SHA256: SHA256 of b"TapTweak"
TAP_TWEAK_SHA256 == sha256(<<84, 97, 112, 84, 119, 101, 97, 107>>)

\* coincurve.PublicKey.from_point(x, y): a point off the curve is refused
from_point(x, y) ==
    IF x < P /\ y < P /\ (y * y) % P = (pow(x, 3, P) + A * x + B) % P
    THEN NoExc(<<x, y>>)
    ELSE Raise("ValueError")

\* coincurve.PublicKey(data) for a compressed key: the point of that X whose
\* Y has the parity of the first byte
PublicKey_root(x, odd, y) ==
    IF (y * y) % P # (pow(x, 3, P) + B) % P THEN Raise("ValueError")
    ELSE NoExc(<<x, IF y % 2 = odd THEN y ELSE P - y>>)

PublicKey(data) ==
    IF Len(data) # 33 \/ data[1] \notin {2, 3} THEN Raise("ValueError")
    ELSE IF from_bytes(Slice(data, 1, 33)) >= P THEN Raise("ValueError")
    ELSE PublicKey_root(from_bytes(Slice(data, 1, 33)), data[1] - 2,
                        pow((pow(from_bytes(Slice(data, 1, 33)), 3, P) + B) % P,
                            (P + 1) \div 4, P))

\* pub_key.format(compressed=False)
format_uncompressed(pub_key) ==
    <<4>> \o to_bytes(pub_key[1], 32) \o to_bytes(pub_key[2], 32)

\* the integer coincurve reads from a 32-byte scalar.  A SHA-256 digest is
\* as wide as a scalar of secp256k1; on the one-byte field the scalar of a
\* digest is its last byte.
scalar_of(h) == h[Len(h)]

\* pub_key.multiply(scalar): a scalar outside 1..N-1 is refused
multiply(pub_key, scalar) ==
    IF scalar_of(scalar) = 0 \/ scalar_of(scalar) >= N THEN Raise("ValueError")
    ELSE NoExc(point_multiply(scalar_of(scalar), pub_key))

\* pub_key.combine([other]): the sum of the two keys, refused when it is
\* the point at infinity
combine_sum(sum) == IF sum = Infinity THEN Raise("ValueError") ELSE NoExc(sum)

combine(pub_key, other) == combine_sum(point_add(pub_key, other))

\* TaggedHash: a str tag is hashed first, and hashlib refuses a str
TaggedHash(tag, data_bytes) ==
    IF tag.str THEN Raise("TypeError")
    ELSE NoExc(sha256(tag.bytes \o tag.bytes \o data_bytes))

\* HashTapTweak
HashTapTweak(pub_key) ==
    TaggedHash([str |-> FALSE, bytes |-> TAP_TWEAK_SHA256], to_bytes(pub_key[1], 32))

\* LiftX from the root y computed for c
LiftX_root(x, c, y) ==
    IF c # pow(y, 2, FIELD_SIZE) THEN Raise("ValueError")
    ELSE from_point(x, IF y % 2 = 0 THEN y ELSE FIELD_SIZE - y)

\* LiftX returning the root as computed, of either parity
LiftX_any_root(pub_key) ==
    IF pub_key[1] >= FIELD_SIZE THEN Raise("ValueError")
    ELSE from_point(pub_key[1],
                    pow((pow(pub_key[1], 3, FIELD_SIZE) + 7) % FIELD_SIZE,
                        (FIELD_SIZE + 1) \div 4, FIELD_SIZE))

\* LiftX
LiftX(pub_key) ==
    IF pub_key[1] >= FIELD_SIZE THEN Raise("ValueError")
    ELSE LiftX_root(pub_key[1],
                    (pow(pub_key[1], 3, FIELD_SIZE) + 7) % FIELD_SIZE,
                    pow((pow(pub_key[1], 3, FIELD_SIZE) + 7) % FIELD_SIZE,
                        (FIELD_SIZE + 1) \div 4, FIELD_SIZE))

\* TweakPublicKey: LiftX(pub_key) is evaluated first, then G.multiply(h),
\* then combine
tweak_combine(out_point) ==
    IF out_point.exc # "none" THEN out_point
    ELSE NoExc(to_bytes(out_point.val[1], 32))

tweak_multiply(lifted, hG) ==
    IF hG.exc # "none" THEN hG ELSE tweak_combine(combine(lifted, hG.val))

tweak_lifted(lifted, h) ==
    IF lifted.exc # "none" THEN lifted
    ELSE tweak_multiply(lifted.val, multiply(G, h.val))

\* TweakPublicKey adding the key itself, not LiftX of it
TweakPublicKey_unlifted(pub_key) ==
    tweak_lifted(from_point(pub_key[1], pub_key[2]), HashTapTweak(pub_key))

\* TweakPublicKey
TweakPublicKey(pub_key) == tweak_lifted(LiftX(pub_key), HashTapTweak(pub_key))

-----------------------------------------------------------------------------
(* CryptographicOperations and the key handling of                        *)
(* ComprehensiveWalletManager (pywallet_full.py)                           *)

\* NETWORKS[network]['address_version'] and ['private_key_version']
Networks == {"bitcoin", "testnet", "namecoin"}

address_version(net) ==
    CASE net = "bitcoin" -> 0 [] net = "testnet" -> 111 [] net = "namecoin" -> 52

private_key_version(net) ==
    CASE net = "bitcoin" -> 128 [] net = "testnet" -> 239 [] net = "namecoin" -> 180

\* value.decode(): bytes has the method, str (Python 3) does not
decode_method(pytype, value) ==
    IF pytype = "bytes" THEN NoExc(value) ELSE Raise("AttributeError")

\* _private_key_to_wif: b58encode returns a str, on which .decode() is called
_private_key_to_wif(net, private_key, compressed) ==
    LET version          == <<private_key_version(net)>>
        key_with_version == version \o private_key
                                    \o (IF compressed THEN <<1>> ELSE <<>>)
        checksum         == Slice(sha256(sha256(key_with_version)), 0, 4)
        wif_bytes        == key_with_version \o checksum
    IN decode_method("str", b58encode(wif_bytes))

\* hmac.new(password, data, hashlib.sha512).digest(): a 64-byte digest
hmac_sha512(password, data) ==
    Digest(<<Len(password)>> \o password \o data, 512, 64)

\* for j in range(iterations - 1): u = prf(u)
RECURSIVE pbkdf2_rounds(_, _, _)
pbkdf2_rounds(password, u, j) ==
    IF j <= 0 THEN u
    ELSE pbkdf2_rounds(password, hmac_sha512(password, u), j - 1)

\* for i in range(1, (key_length // 64) + 2): result += u
RECURSIVE pbkdf2_blocks(_, _, _, _, _)
pbkdf2_blocks(password, salt, iterations, i, stop) ==
    IF i >= stop THEN <<>>
    ELSE pbkdf2_rounds(password,
                       hmac_sha512(password, salt \o <<0, 0, 0, i>>),
                       iterations - 1)
         \o pbkdf2_blocks(password, salt, iterations, i + 1, stop)

\* pbkdf2, the local function of _decrypt_private_key_advanced
pbkdf2(password, salt, iterations, key_length) ==
    Slice(pbkdf2_blocks(password, salt, iterations, 1, (key_length \div 64) + 2),
          0, key_length)

\* The block cipher of the Crypto library is outside the repository: a
\* keyed, invertible byte substitution stands for AES, chained as CBC
\* chains (each plaintext block depends on the key, the ciphertext block and
\* the previous ciphertext block).
cbc_decrypt(key, iv, data) ==
    [j \in 1..Len(data) |->
        (data[j] + 512 - key[((j - 1) % Len(key)) + 1]
                 - (IF j <= 16 THEN iv[j] ELSE data[j - 16])) % 256]

RECURSIVE cbc_encrypt_byte(_, _, _, _)
cbc_encrypt_byte(key, iv, data, j) ==
    (data[j] + key[((j - 1) % Len(key)) + 1]
             + (IF j <= 16 THEN iv[j] ELSE cbc_encrypt_byte(key, iv, data, j - 16))) % 256

cbc_encrypt(key, iv, data) ==
    [j \in 1..Len(data) |-> cbc_encrypt_byte(key, iv, data, j)]

\* the import of Crypto succeeded
HAS_PYCRYPTO == TRUE

\* aes_decrypt: AES.new rejects an IV that is not 16 bytes, decrypt rejects
\* data that is not a multiple of the block size (ValueError)
aes_decrypt(key, data) ==
    IF ~HAS_PYCRYPTO THEN Raise("PyWalletError")
    ELSE LET iv             == Slice(data, 0, 16)
             encrypted_data == Slice(data, 16, Len(data))
         IN IF Len(iv) # 16 \/ Len(encrypted_data) % 16 # 0
            THEN Raise("ValueError")
            ELSE NoExc(cbc_decrypt(key, iv, encrypted_data))

\* aes_encrypt with a given iv
aes_encrypt(key, data, iv) == iv \o cbc_encrypt(key, iv, data)

-----------------------------------------------------------------------------
(* parse_wallet (bitcoin2john.py) *)

\* the record types, as the ASCII codes of their names
Tag_tx == <<116, 120>>
Tag_name == <<110, 97, 109, 101>>
Tag_version == <<118, 101, 114, 115, 105, 111, 110>>
Tag_minversion == <<109, 105, 110, 118, 101, 114, 115, 105, 111, 110>>
Tag_setting == <<115, 101, 116, 116, 105, 110, 103>>
Tag_key == <<107, 101, 121>>
Tag_wkey == <<119, 107, 101, 121>>
Tag_defaultkey == <<100, 101, 102, 97, 117, 108, 116, 107, 101, 121>>
Tag_pool == <<112, 111, 111, 108>>
Tag_acc == <<97, 99, 99>>
Tag_acentry == <<97, 99, 101, 110, 116, 114, 121>>
Tag_bestblock == <<98, 101, 115, 116, 98, 108, 111, 99, 107>>
Tag_ckey == <<99, 107, 101, 121>>
Tag_mkey == <<109, 107, 101, 121>>
Str_nTransactionFee == <<110, 84, 114, 97, 110, 115, 97, 99, 116, 105, 111, 110, 70, 101, 101>>
Str_nLimitProcessors == <<110, 76, 105, 109, 105, 116, 80, 114, 111, 99, 101, 115, 115, 111, 114, 115>>
Str_addr == <<97, 100, 100, 114>>

RecognizedTags == {Tag_tx, Tag_name, Tag_version, Tag_minversion, Tag_setting,
                   Tag_key, Tag_wkey, Tag_defaultkey, Tag_pool, Tag_acc,
                   Tag_acentry, Tag_bestblock, Tag_ckey, Tag_mkey}

\* bytes.decode('utf-8', errors='ignore') on ASCII mixed with bytes that
\* start no valid sequence: the invalid bytes are dropped
decode_ignore(bs) == SelectSeq(bs, LAMBDA b : b < 128)

\* d[name] = value
Put(d, name, value) == (name :> value) @@ d

\* the reads of each record type in the order of the code:
\* <<stream ("k" for kds, "v" for vds), read, field of d>>
Plan(record_type) ==
    CASE record_type = Tag_tx ->
            << <<"k", "txid", "tx_id">>, <<"v", "tell", "__start__">>,
               <<"v", "int32", "version">>, <<"v", "txins", "txIn">>,
               <<"v", "txouts", "txOut">>, <<"v", "uint32", "lockTime">>,
               <<"v", "hex_from_start", "tx">>, <<"v", "hex_value", "txv">>,
               <<"k", "hex_key", "txk">> >>
      [] record_type = Tag_name ->
            << <<"k", "string", "hash">>, <<"v", "string", "name">> >>
      [] record_type = Tag_version -> << <<"v", "uint32", "version">> >>
      [] record_type = Tag_minversion -> << <<"v", "uint32", "minversion">> >>
      [] record_type = Tag_setting ->
            << <<"k", "text", "setting">>, <<"v", "setting_value", "value">> >>
      [] record_type = Tag_key ->
            << <<"k", "string", "public_key">>, <<"v", "string", "private_key">> >>
      [] record_type = Tag_wkey ->
            << <<"k", "string", "public_key">>, <<"v", "string", "private_key">>,
               <<"v", "int64", "created">>, <<"v", "int64", "expires">>,
               <<"v", "string", "comment">> >>
      [] record_type = Tag_defaultkey -> << <<"v", "string", "key">> >>
      [] record_type = Tag_pool ->
            << <<"k", "int64", "n">>, <<"v", "int32", "nVersion">>,
               <<"v", "int64", "nTime">>, <<"v", "string", "public_key">> >>
      [] record_type = Tag_acc ->
            << <<"k", "string", "account">>, <<"v", "int32", "nVersion">>,
               <<"v", "string", "public_key">> >>
      [] record_type = Tag_acentry ->
            << <<"k", "string", "account">>, <<"k", "uint64", "n">>,
               <<"v", "int32", "nVersion">>, <<"v", "int64", "nCreditDebit">>,
               <<"v", "int64", "nTime">>, <<"v", "string", "otherAccount">>,
               <<"v", "string", "comment">> >>
      [] record_type = Tag_bestblock -> << <<"v", "int32", "nVersion">> >>
      [] record_type = Tag_ckey ->
            << <<"k", "string", "public_key">>,
               <<"v", "string", "encrypted_private_key">> >>
      [] record_type = Tag_mkey ->
            << <<"k", "uint32", "nID">>, <<"v", "string", "encrypted_key">>,
               <<"v", "string", "salt">>, <<"v", "uint32", "nDerivationMethod">>,
               <<"v", "uint32", "nDerivationIterations">>,
               <<"v", "string", "otherParams">> >>
      [] OTHER -> << >>

\* the reads of parse_TxIn, parse_TxOut and parse_CAddress
Plan_TxIn ==
    << <<"v", "hex32", "prevout_hash">>, <<"v", "uint32", "prevout_n">>,
       <<"v", "hex_string", "scriptSig">>, <<"v", "uint32", "sequence">> >>

Plan_TxOut == << <<"v", "int64", "value">>, <<"v", "hex_string", "scriptPubKey">> >>

Plan_CAddress ==
    << <<"v", "int32", "nVersion">>, <<"v", "uint32", "nTime">>,
       <<"v", "uint64", "nServices">>, <<"v", "bytes12", "pchReserved">>,
       <<"v", "inet_ntoa", "ip">>, <<"v", "uint16", "port">> >>

\* the state of a run of reads: the exception raised, the two streams and d
Reading(kds, vds, d) == [exc |-> "none", kds |-> kds, vds |-> vds, d |-> d]

\* the value of a read replaced by what the code makes of it
Mapped(r, val) == [exc |-> r.exc, val |-> val, s |-> r.s]

\* inversetxid: a txid that is not 64 hex digits is marked, not rejected
ReverseBytes(bs) == [i \in 1..Len(bs) |-> bs[Len(bs) + 1 - i]]

inversetxid(txid_bytes) ==
    IF Len(hexlify(txid_bytes)) # 64
    THEN [corrupted |-> TRUE, txid |-> hexlify(txid_bytes)]
    ELSE [corrupted |-> FALSE, txid |-> hexlify(ReverseBytes(txid_bytes))]

\* socket.inet_ntoa: an OSError unless the packed address has 4 bytes
inet_ntoa(r) ==
    IF r.exc = "none" /\ Len(r.val) # 4 THEN [exc |-> "OSError", val |-> <<>>, s |-> r.s]
    ELSE r

\* str(bool)
str_bool(r) == Mapped(r, IF r.val THEN "True" ELSE "False")

RECURSIVE RunPlan(_, _)
RECURSIVE ParseList(_, _, _, _)

\* parse_TxIn and parse_TxOut (value is the amount before the division by
\* 1e8)
parse_TxIn(s) == RunPlan(Plan_TxIn, Reading(NewStream, s, <<>>))
parse_TxOut(s) == RunPlan(Plan_TxOut, Reading(NewStream, s, <<>>))

\* for i in range(n): list.append(parse(vds))
ParseListNext(st, n, isIn, acc) ==
    IF st.exc # "none" THEN [exc |-> st.exc, val |-> acc, s |-> st.vds]
    ELSE ParseList(st.vds, n - 1, isIn, Append(acc, st.d))

ParseList(s, n, isIn, acc) ==
    IF n <= 0 THEN [exc |-> "none", val |-> acc, s |-> s]
    ELSE ParseListNext(IF isIn THEN parse_TxIn(s) ELSE parse_TxOut(s), n, isIn, acc)

\* n = vds.read_compact_size() and the loop over range(n)
ParseListOf(n, isIn) ==
    IF n.exc # "none" THEN [exc |-> n.exc, val |-> <<>>, s |-> n.s]
    ELSE ParseList(n.s, n.val, isIn, <<>>)

\* parse_CAddress: every exception is swallowed, the fields read before it
\* stay and the others keep their defaults
CAddressOf(st) ==
    [exc |-> "none",
     val |-> [ip   |-> IF "ip" \in DOMAIN st.d THEN st.d.ip ELSE <<0, 0, 0, 0>>,
              port |-> IF "port" \in DOMAIN st.d THEN st.d.port ELSE 0],
     s   |-> st.vds]

parse_CAddress(s) == CAddressOf(RunPlan(Plan_CAddress, Reading(NewStream, s, <<>>)))

\* parse_setting: setting[0] of an empty name is an IndexError
parse_setting(setting, s) ==
    IF setting = <<>> THEN [exc |-> "IndexError", val |-> <<>>, s |-> s]
    ELSE IF setting[1] = 102 THEN str_bool(read_boolean(s))
    ELSE IF Slice(setting, 0, 4) = Str_addr THEN parse_CAddress(s)
    ELSE IF setting = Str_nTransactionFee THEN _read_num(s, "<q")
    ELSE IF setting = Str_nLimitProcessors THEN _read_num(s, "<i")
    ELSE [exc |-> "none", val |-> "unknown setting", s |-> s]

\* one read of a plan on the stream s, with the fields d read so far
ReadOp(s, op, d) ==
    CASE op = "string" -> read_string(s)
      [] op = "int32"  -> _read_num(s, "<i")
      [] op = "uint16" -> _read_num(s, "<H")
      [] op = "uint32" -> _read_num(s, "<I")
      [] op = "int64"  -> _read_num(s, "<q")
      [] op = "uint64" -> _read_num(s, "<Q")
      [] op = "text" -> Mapped(read_string(s), decode_ignore(read_string(s).val))
      [] op = "hex_string" -> Mapped(read_string(s), hexlify(read_string(s).val))
      [] op = "hex32" -> Mapped(read_bytes(s, 32), hexlify(read_bytes(s, 32).val))
      [] op = "txid" -> Mapped(read_bytes(s, 32), inversetxid(read_bytes(s, 32).val))
      [] op = "bytes12" -> read_bytes(s, 12)
      [] op = "inet_ntoa" -> inet_ntoa(read_bytes(s, 4))
      [] op = "tell" -> [exc |-> "none", val |-> s.read_cursor, s |-> s]
      [] op = "txins" -> ParseListOf(read_compact_size(s), TRUE)
      [] op = "txouts" -> ParseListOf(read_compact_size(s), FALSE)
      [] op = "hex_from_start" ->
            [exc |-> "none", s |-> s,
             val |-> hexlify(Slice(s.input, d.__start__, s.read_cursor))]
      [] op = "hex_value" -> [exc |-> "none", val |-> hexlify(d.__value__), s |-> s]
      [] op = "hex_key" -> [exc |-> "none", val |-> hexlify(d.__key__), s |-> s]
      [] op = "setting_value" -> parse_setting(d.setting, s)

\* the state after the read r of the step
AfterRead(step, st, r) ==
    [exc |-> r.exc,
     kds |-> IF step[1] = "k" THEN r.s ELSE st.kds,
     vds |-> IF step[1] = "v" THEN r.s ELSE st.vds,
     d   |-> IF r.exc = "none" THEN Put(st.d, step[3], r.val) ELSE st.d]

\* the reads of a plan in order, up to the first exception
RunPlan(plan, st) ==
    IF plan = <<>> \/ st.exc # "none" THEN st
    ELSE RunPlan(Tail(plan),
                 AfterRead(Head(plan), st,
                           ReadOp(IF Head(plan)[1] = "k" THEN st.kds ELSE st.vds,
                                  Head(plan)[2], st.d)))

\* d as item_callback gets it: start is a local of parse_wallet
Decoded(record_type, st) ==
    [exc |-> st.exc, record_type |-> record_type,
     d |-> [f \in DOMAIN st.d \ {"__start__"} |-> st.d[f]]]

\* the reads after record_type = kds.read_string()
DecodeRecord(key, value, vds, t) ==
    IF t.exc # "none" THEN [exc |-> t.exc, record_type |-> <<>>, d |-> <<>>]
    ELSE Decoded(decode_ignore(t.val),
                 RunPlan(Plan(decode_ignore(t.val)),
                         Reading(t.s, vds,
                                 [__key__ |-> key, __value__ |-> value,
                                  __type__ |-> decode_ignore(t.val)])))

\* The body of the for loop of parse_wallet up to the call of
\* item_callback: exc = "none" and the (record_type, d) handed to the
\* callback, or the exception raised while decoding
DecodePair(key, value) ==
    DecodeRecord(key, value, write(NewStream, value),
                 read_string(write(NewStream, key)))

\* except (SerializationError, struct.error, UnicodeDecodeError): continue
SkippedExceptions == {"SerializationError", "struct.error", "UnicodeDecodeError"}

-----------------------------------------------------------------------------
(* read_wallet and generate_john_hash (bitcoin2john.py) *)


\* the ecdsa import succeeded
HAS_ECDSA == TRUE

\* json_db as read_wallet initialises it before the parse
NewJsonDb == [keys |-> <<>>, pool |-> <<>>, tx |-> <<>>, names |-> EmptyDict,
              ckey |-> <<>>, mkey |-> EmptyDict]

\* The branches of item_callback of read_wallet: [exc, json_db].
Done(jdb) == [exc |-> "none", json_db |-> jdb]

on_tx(jdb, d) ==
    Done([jdb EXCEPT !.tx = Append(@,
        [tx_id |-> d.tx_id, txin |-> d.txIn, txout |-> d.txOut,
         tx_v |-> d.txv, tx_k |-> d.txk])])

on_name(jdb, d) ==
    Done([jdb EXCEPT !.names = Put(@, decode_ignore(d.hash), decode_ignore(d.name))])

on_setting(jdb, d) ==
    Done(Put(jdb, "settings",
             Put(IF "settings" \in DOMAIN jdb THEN jdb.settings ELSE EmptyDict,
                 d.setting, d.value)))

\* d['public_key'][0] of an empty public key is an IndexError, raised
\* before anything is appended
on_key(jdb, d, addrtype_) ==
    IF d.public_key = <<>> THEN [exc |-> "IndexError", json_db |-> jdb]
    ELSE Done([jdb EXCEPT !.keys = Append(@,
             [addr |-> public_key_to_bc_address(d.public_key, addrtype_),
              sec |-> IF HAS_ECDSA THEN Some(hexlify(d.private_key)) ELSE None,
              hexsec |-> hexlify(d.private_key),
              secret |-> hexlify(d.private_key),
              pubkey |-> hexlify(d.public_key),
              compressed |-> d.public_key[1] # 4,
              private |-> hexlify(d.private_key)])])

on_pool(jdb, d, addrtype_) ==
    Done([jdb EXCEPT !.pool = Append(@,
        [n |-> d.n, addr |-> public_key_to_bc_address(d.public_key, addrtype_),
         nTime |-> d.nTime, nVersion |-> d.nVersion,
         public_key_hex |-> hexlify(d.public_key)])])

on_acentry(jdb, d) ==
    Done(Put(jdb, "acentry",
             <<decode_ignore(d.account), d.nCreditDebit,
               decode_ignore(d.otherAccount), d.nTime, d.n,
               decode_ignore(d.comment)>>))

on_ckey(jdb, d, addrtype_) ==
    IF d.public_key = <<>> THEN [exc |-> "IndexError", json_db |-> jdb]
    ELSE Done([jdb EXCEPT !.keys = Append(@,
             [addr |-> public_key_to_bc_address(d.public_key, addrtype_),
              sec |-> "Encrypted",
              hexsec |-> hexlify(d.encrypted_private_key),
              secret |-> hexlify(d.encrypted_private_key),
              pubkey |-> hexlify(d.public_key),
              encrypted_private_key |-> hexlify(d.encrypted_private_key),
              compressed |-> d.public_key[1] # 4])])

on_mkey(jdb, d) ==
    Done([jdb EXCEPT !.mkey =
        [nID |-> d.nID,
         salt |-> hexlify(d.salt),
         nDerivationIterations |-> d.nDerivationIterations,
         nDerivationMethod |-> d.nDerivationMethod,
         encrypted_key |-> hexlify(d.encrypted_key),
         otherParams |-> hexlify(d.otherParams)]])

\* a dispatch whose last branch is an else: every other record is taken
\* for an encrypted key
read_wallet_item_callback_else(jdb, record_type, d, addrtype_) ==
    CASE record_type = Tag_tx -> on_tx(jdb, d)
      [] record_type = Tag_name -> on_name(jdb, d)
      [] record_type = Tag_version -> Done(Put(jdb, "version", d.version))
      [] record_type = Tag_minversion -> Done(Put(jdb, "minversion", d.minversion))
      [] record_type = Tag_setting -> on_setting(jdb, d)
      [] record_type = Tag_defaultkey ->
            Done(Put(jdb, "defaultkey", public_key_to_bc_address(d.key, addrtype_)))
      [] record_type = Tag_key -> on_key(jdb, d, addrtype_)
      [] record_type = Tag_wkey -> Done(Put(jdb, "wkey", [created |-> d.created]))
      [] record_type = Tag_pool -> on_pool(jdb, d, addrtype_)
      [] record_type = Tag_acc -> Done(Put(jdb, "acc", decode_ignore(d.account)))
      [] record_type = Tag_acentry -> on_acentry(jdb, d)
      [] record_type = Tag_bestblock -> Done(jdb)
      [] record_type = Tag_mkey -> on_mkey(jdb, d)
      [] OTHER -> Done([jdb EXCEPT !.keys = Append(@, [sec |-> "Encrypted"])])

\* item_callback of read_wallet: the if/elif chain over record_type; a
\* record_type that matches no branch falls through
read_wallet_item_callback(jdb, record_type, d, addrtype_) ==
    CASE record_type = Tag_tx -> on_tx(jdb, d)
      [] record_type = Tag_name -> on_name(jdb, d)
      [] record_type = Tag_version -> Done(Put(jdb, "version", d.version))
      [] record_type = Tag_minversion -> Done(Put(jdb, "minversion", d.minversion))
      [] record_type = Tag_setting -> on_setting(jdb, d)
      [] record_type = Tag_defaultkey ->
            Done(Put(jdb, "defaultkey", public_key_to_bc_address(d.key, addrtype_)))
      [] record_type = Tag_key -> on_key(jdb, d, addrtype_)
      [] record_type = Tag_wkey -> Done(Put(jdb, "wkey", [created |-> d.created]))
      [] record_type = Tag_pool -> on_pool(jdb, d, addrtype_)
      [] record_type = Tag_acc -> Done(Put(jdb, "acc", decode_ignore(d.account)))
      [] record_type = Tag_acentry -> on_acentry(jdb, d)
      [] record_type = Tag_bestblock -> Done(jdb)
      [] record_type = Tag_ckey -> on_ckey(jdb, d, addrtype_)
      [] record_type = Tag_mkey -> on_mkey(jdb, d)
      [] OTHER -> Done(jdb)

\* os.path.basename: what follows the last "/" of the path
basename(path) ==
    LET seps == {i \in 1..Len(path) : path[i] = "/"}
        i == IF seps = {} THEN 0 ELSE CHOOSE k \in seps : \A m \in seps : m <= k
    IN SubSeq(path, i + 1, Len(path))

\* str(n) of an int n >= 0, as the f-string renders it
RECURSIVE str(_)
str(n) ==
    IF n < 10 THEN <<hexchars[n + 1]>>
    ELSE str(n \div 10) \o <<hexchars[(n % 10) + 1]>>

Str_bitcoin == <<"$", "b", "i", "t", "c", "o", "i", "n", "$">>

\* the loop of generate_john_hash: the encrypted_private_key of the first
\* entry that has one, None when no entry has one
RECURSIVE first_encrypted_key(_)
first_encrypted_key(keys) ==
    IF keys = <<>> THEN None
    ELSE IF "encrypted_private_key" \in DOMAIN Head(keys)
    THEN Some(Head(keys).encrypted_private_key)
    ELSE first_encrypted_key(Tail(keys))

\* the f-strings with len(hex) where len(hex) // 2 belongs
generate_john_hash_charlen(wallet_path, wd) ==
    IF IsEmptyDict(wd) \/ "mkey" \notin DOMAIN wd \/ IsEmptyDict(wd.mkey) THEN None
    ELSE IF "keys" \notin DOMAIN wd \/ wd.keys = <<>> THEN None
    ELSE LET mkey == wd.mkey
             found == first_encrypted_key(wd.keys)
         IN IF found = None \/ found[1] = <<>> THEN None
            ELSE LET encrypted_key == found[1]
                     john_hash ==
                         Str_bitcoin \o str(Len(mkey.encrypted_key))
                           \o <<"$">> \o mkey.encrypted_key
                           \o <<"$">> \o str(Len(mkey.salt))
                           \o <<"$">> \o mkey.salt
                           \o <<"$">> \o str(mkey.nDerivationIterations)
                           \o <<"$">> \o str(Len(encrypted_key))
                           \o <<"$">> \o encrypted_key
                           \o <<"$">> \o str(mkey.nDerivationMethod)
                 IN Some(basename(wallet_path) \o <<":">> \o john_hash)

\* generate_john_hash: the text of the two f-strings; None when nothing is
\* emitted ("not encrypted_key" also holds for an empty hex string)
generate_john_hash(wallet_path, wd) ==
    IF IsEmptyDict(wd) \/ "mkey" \notin DOMAIN wd \/ IsEmptyDict(wd.mkey) THEN None
    ELSE IF "keys" \notin DOMAIN wd \/ wd.keys = <<>> THEN None
    ELSE LET mkey == wd.mkey
             found == first_encrypted_key(wd.keys)
         IN IF found = None \/ found[1] = <<>> THEN None
            ELSE LET encrypted_key == found[1]
                     john_hash ==
                         Str_bitcoin \o str(Len(mkey.encrypted_key) \div 2)
                           \o <<"$">> \o mkey.encrypted_key
                           \o <<"$">> \o str(Len(mkey.salt) \div 2)
                           \o <<"$">> \o mkey.salt
                           \o <<"$">> \o str(mkey.nDerivationIterations)
                           \o <<"$">> \o str(Len(encrypted_key) \div 2)
                           \o <<"$">> \o encrypted_key
                           \o <<"$">> \o str(mkey.nDerivationMethod)
                 IN Some(basename(wallet_path) \o <<":">> \o john_hash)

-----------------------------------------------------------------------------
(* WalletDumper (pywallet.py) *)

\* wallet_data as dump_wallet creates it; statistics is filled at the end
NewWalletData(net) ==
    [keys |-> <<>>, addresses |-> <<>>, transactions |-> <<>>,
     settings |-> EmptyDict,
     metadata |-> [encrypted |-> FALSE, version |-> None, network |-> net],
     statistics |-> EmptyDict]

\* d.get(name): None when the field is missing
Get(d, name) == IF name \in DOMAIN d THEN Some(d[name]) ELSE None

\* the master_key entry both dumpers store for an mkey record
master_key_info(d) ==
    [id |-> Get(d, "nID"),
     salt |-> IF "salt" \in DOMAIN d THEN Some(hexlify(d.salt)) ELSE None,
     iterations |-> Get(d, "nDerivationIterations"),
     method |-> Get(d, "nDerivationMethod")]

\* the transaction entry both dumpers store for a tx record
transaction_entry(d) ==
    [txid |-> Get(d, "tx_id"),
     inputs |-> IF "txIn" \in DOMAIN d THEN d.txIn ELSE <<>>,
     outputs |-> IF "txOut" \in DOMAIN d THEN d.txOut ELSE <<>>,
     version |-> Get(d, "version"),
     lock_time |-> Get(d, "lockTime")]

Str_ENCRYPTED == <<"E", "N", "C", "R", "Y", "P", "T", "E", "D">>

\* WalletDumper._decrypt_private_key: a placeholder that returns None
_decrypt_private_key(encrypted_key, passphrase_, wd) == None

\* WalletDumper._process_wallet_record
_process_wallet_record(record_type, d, wd, passphrase_, addrtype_) ==
    CASE record_type = Tag_key ->
            LET addr == public_key_to_bc_address(d.public_key, addrtype_)
                compressed == Len(d.public_key) = 33
            IN [wd EXCEPT
                  !.keys = Append(@, [address |-> addr,
                                      private_key |-> hexlify(d.private_key),
                                      public_key |-> hexlify(d.public_key),
                                      compressed |-> compressed,
                                      encrypted |-> FALSE]),
                  !.addresses = Append(@, [address |-> addr, type |-> "key",
                                           compressed |-> compressed])]
      [] record_type = Tag_ckey ->
            LET addr == public_key_to_bc_address(d.public_key, addrtype_)
                compressed == Len(d.public_key) = 33
                key_entry == [address |-> addr,
                              private_key |-> Str_ENCRYPTED,
                              encrypted_private_key |-> hexlify(d.encrypted_private_key),
                              public_key |-> hexlify(d.public_key),
                              compressed |-> compressed,
                              encrypted |-> TRUE]
                decrypted_key == _decrypt_private_key(d.encrypted_private_key,
                                                      passphrase_, wd)
                final_entry ==
                    IF passphrase_ = <<>> THEN key_entry
                    ELSE IF decrypted_key # None /\ decrypted_key # Some(<<>>)
                    THEN Put(Put(key_entry, "private_key", hexlify(decrypted_key[1])),
                             "decryption_status", "success")
                    ELSE Put(key_entry, "decryption_status", "failed")
            IN [wd EXCEPT
                  !.metadata.encrypted = TRUE,
                  !.keys = Append(@, final_entry),
                  !.addresses = Append(@, [address |-> addr, type |-> "ckey",
                                           compressed |-> compressed,
                                           encrypted |-> TRUE])]
      [] record_type = Tag_mkey ->
            [wd EXCEPT !.metadata = Put(@, "master_key", master_key_info(d))]
      [] record_type = Tag_tx ->
            [wd EXCEPT !.transactions = Append(@, transaction_entry(d))]
      [] record_type = Tag_version ->
            [wd EXCEPT !.metadata.version = Get(d, "version")]
      [] record_type = Tag_setting ->
            [wd EXCEPT !.settings = Put(@, d.setting, d.value)]
      [] OTHER -> wd

\* str < str on base58 text: the alphabet is in code-point order
CharIndex(c) == CHOOSE i \in 1..Len(b58chars) : b58chars[i] = c

RECURSIVE StrLess(_, _)
StrLess(a, b) ==
    IF b = <<>> THEN FALSE
    ELSE IF a = <<>> THEN TRUE
    ELSE IF Head(a) = Head(b) THEN StrLess(Tail(a), Tail(b))
    ELSE CharIndex(Head(a)) < CharIndex(Head(b))

\* list.sort(key=...): stable, ascending
RECURSIVE InsertSorted(_, _, _)
InsertSorted(sorted, e, field) ==
    IF sorted = <<>> THEN <<e>>
    ELSE IF StrLess(e[field], Head(sorted)[field])
    THEN <<e>> \o sorted
    ELSE <<Head(sorted)>> \o InsertSorted(Tail(sorted), e, field)

RECURSIVE SortBy(_, _)
SortBy(list, field) ==
    IF list = <<>> THEN <<>>
    ELSE InsertSorted(SortBy(SubSeq(list, 1, Len(list) - 1), field),
                      list[Len(list)], field)

\* WalletDumper._post_process_wallet_data (include_balance = False)
_post_process_wallet_data(wd) ==
    LET addresses == SortBy(wd.addresses, "address")
        keys      == SortBy(wd.keys, "address")
    IN [wd EXCEPT
          !.addresses = addresses,
          !.keys = keys,
          !.statistics =
              [total_keys |-> Len(keys),
               encrypted_keys |-> Len(SelectSeq(keys, LAMBDA k : k.encrypted)),
               unencrypted_keys |-> Len(SelectSeq(keys, LAMBDA k : ~k.encrypted)),
               total_addresses |-> Len(addresses),
               total_transactions |-> Len(wd.transactions)]]

-----------------------------------------------------------------------------
(* ComprehensiveWalletManager (pywallet_full.py) *)

\* _decrypt_private_key_advanced: None without master key information, on
\* any exception, and for a plaintext shorter than 32 bytes
_decrypt_private_key_advanced(encrypted_key, passphrase_, wd) ==
    IF "master_key" \notin DOMAIN wd.metadata THEN None
    ELSE LET info == wd.metadata.master_key
         IN IF info.salt = None \/ info.iterations = None THEN None
            ELSE LET salt == unhexlify(info.salt[1])
                     iterations == info.iterations[1]
                     derived_key == pbkdf2(passphrase_, salt, iterations, 64)
                     decryption_key == Slice(derived_key, 0, 32)
                     decrypted == aes_decrypt(decryption_key, encrypted_key)
                 IN IF decrypted.exc # "none" THEN None
                    ELSE IF Len(decrypted.val) >= 32
                    THEN Some(Slice(decrypted.val, 0, 32))
                    ELSE None

\* the attempt at decryption inside the ckey branch: the entry is written
\* field by field, so an exception leaves the fields already written
decrypt_into_entry(self_network, key_entry, encrypted_private_key, passphrase_, wd) ==
    LET decrypted_key == _decrypt_private_key_advanced(encrypted_private_key,
                                                       passphrase_, wd)
    IN IF decrypted_key = None
       THEN Put(key_entry, "decryption_status", "failed")
       ELSE LET e1   == Put(key_entry, "private_key", hexlify(decrypted_key[1]))
                wif  == _private_key_to_wif(self_network, decrypted_key[1], FALSE)
                wifc == _private_key_to_wif(self_network, decrypted_key[1], TRUE)
            IN IF wif.exc # "none"
               THEN Put(e1, "decryption_status", "error: " \o wif.exc)
               ELSE IF wifc.exc # "none"
               THEN Put(Put(e1, "wif", wif.val),
                        "decryption_status", "error: " \o wifc.exc)
               ELSE Put(Put(Put(e1, "wif", wif.val), "wif_compressed", wifc.val),
                        "decryption_status", "success")

\* _process_comprehensive_wallet_record (include_balance = False)
_process_comprehensive_wallet_record(self_network, record_type, d, wd, passphrase_, addrtype_) ==
    CASE record_type = Tag_key ->
            LET addr_uncompressed == public_key_to_bc_address(d.public_key, addrtype_)
                compressed_pubkey == compress_public_key(d.public_key)
                wif  == _private_key_to_wif(self_network, d.private_key, FALSE)
                wifc == _private_key_to_wif(self_network, d.private_key, TRUE)
            IN IF compressed_pubkey.exc # "none" \/ wif.exc # "none" \/ wifc.exc # "none"
               THEN wd
               ELSE LET addr_compressed ==
                            public_key_to_bc_address(compressed_pubkey.val, addrtype_)
                    IN [wd EXCEPT
                          !.keys = Append(@,
                              [address_uncompressed |-> addr_uncompressed,
                               address_compressed |-> addr_compressed,
                               private_key |-> hexlify(d.private_key),
                               public_key |-> hexlify(d.public_key),
                               public_key_compressed |-> hexlify(compressed_pubkey.val),
                               compressed |-> Len(d.public_key) = 33,
                               encrypted |-> FALSE,
                               wif |-> wif.val,
                               wif_compressed |-> wifc.val]),
                          !.addresses = @ \o
                              << [address |-> addr_uncompressed, type |-> "uncompressed",
                                  encrypted |-> FALSE, has_private_key |-> TRUE],
                                 [address |-> addr_compressed, type |-> "compressed",
                                  encrypted |-> FALSE, has_private_key |-> TRUE] >>]
      [] record_type = Tag_ckey ->
            LET wd1 == [wd EXCEPT !.metadata.encrypted = TRUE]
                addr_uncompressed == public_key_to_bc_address(d.public_key, addrtype_)
                compressed_pubkey == compress_public_key(d.public_key)
            IN IF compressed_pubkey.exc # "none" THEN wd1
               ELSE LET key_entry ==
                            [address_uncompressed |-> addr_uncompressed,
                             address_compressed |->
                                 public_key_to_bc_address(compressed_pubkey.val, addrtype_),
                             private_key |-> Str_ENCRYPTED,
                             encrypted_private_key |-> hexlify(d.encrypted_private_key),
                             public_key |-> hexlify(d.public_key),
                             public_key_compressed |-> hexlify(compressed_pubkey.val),
                             compressed |-> Len(d.public_key) = 33,
                             encrypted |-> TRUE]
                    IN [wd1 EXCEPT !.keys = Append(@,
                           IF passphrase_ = <<>> THEN key_entry
                           ELSE decrypt_into_entry(self_network, key_entry,
                                                   d.encrypted_private_key,
                                                   passphrase_, wd1))]
      [] record_type = Tag_mkey ->
            [wd EXCEPT !.metadata = Put(@, "master_key",
                 Put(master_key_info(d), "key_derivation_function", "PBKDF2"))]
      [] record_type = Tag_tx ->
            [wd EXCEPT !.transactions = Append(@,
                 Put(transaction_entry(d), "timestamp", Get(d, "timeReceived")))]
      [] OTHER -> wd

\* _post_process_comprehensive_wallet_data (include_balance = False)
_post_process_comprehensive_wallet_data(wd) ==
    LET addresses == SortBy(wd.addresses, "address")
        keys      == SortBy(wd.keys, "address_uncompressed")
    IN [wd EXCEPT
          !.addresses = addresses,
          !.keys = keys,
          !.statistics =
              [total_keys |-> Len(keys),
               encrypted_keys |-> Len(SelectSeq(keys, LAMBDA k : k.encrypted)),
               unencrypted_keys |-> Len(SelectSeq(keys, LAMBDA k : ~k.encrypted)),
               total_addresses |-> Len(addresses),
               total_transactions |-> Len(wd.transactions),
               compressed_keys |-> Len(SelectSeq(keys, LAMBDA k : k.compressed)),
               uncompressed_keys |-> Len(SelectSeq(keys, LAMBDA k : ~k.compressed)),
               successfully_decrypted |->
                   Len(SelectSeq(keys, LAMBDA k : "decryption_status" \in DOMAIN k
                                                 /\ k.decryption_status = "success"))]]

-----------------------------------------------------------------------------
(* The pairs the store iterator can yield *)

Pair(key, value) == [key |-> key, value |-> value]

\* what write_string / _write_num put into an empty stream
Ser_string(bs) == write_string(NewStream, bs).input
Ser_num(fmt, num) == _write_num(NewStream, fmt, num).input

\* well-formed records, by the layouts of parse_wallet
MkeyPair(nID, encrypted_key, salt, method, iterations, otherParams) ==
    Pair(Ser_string(Tag_mkey) \o Ser_num("<I", nID),
         Ser_string(encrypted_key) \o Ser_string(salt) \o Ser_num("<I", method)
             \o Ser_num("<I", iterations) \o Ser_string(otherParams))

CkeyPair(public_key, encrypted_private_key) ==
    Pair(Ser_string(Tag_ckey) \o Ser_string(public_key),
         Ser_string(encrypted_private_key))

KeyPair(public_key, private_key) ==
    Pair(Ser_string(Tag_key) \o Ser_string(public_key), Ser_string(private_key))

SettingPair(name, value) == Pair(Ser_string(Tag_setting) \o Ser_string(name), value)

TxPair(txid, version, locktime) ==
    Pair(Ser_string(Tag_tx) \o txid,
         Ser_num("<i", version) \o <<0>> \o <<0>> \o Ser_num("<I", locktime))

\* a pair cut short: the last n bytes of one side are missing
TruncateKey(pair, n) == [pair EXCEPT !.key = SubSeq(@, 1, Len(@) - n)]
TruncateValue(pair, n) == [pair EXCEPT !.value = SubSeq(@, 1, Len(@) - n)]

\* the key pair of the scalar 1
Secret1 == to_bytes(1, 32)
PubUncompressed == private_key_to_public_key(Secret1).val
PubCompressed == compress_public_key(PubUncompressed).val

\* passphrases as their UTF-8 bytes: "pw" protects the wallet, "no" does not
RightPass == <<112, 119>>
WrongPass == <<110, 111>>

DumpSalt == <<1, 2, 3, 4, 5, 6, 7, 8>>
DumpIterations == 3
DumpIV == <<16, 15, 14, 13, 12, 11, 10, 9, 8, 7, 6, 5, 4, 3, 2, 1>>

\* the payload aes_encrypt produces for Secret1 under the key derived from
\* RightPass
GoodPayload ==
    aes_encrypt(Slice(pbkdf2(RightPass, DumpSalt, DumpIterations, 64), 0, 32),
                Secret1, DumpIV)

\* the same payload with one ciphertext byte changed
CorruptPayload == [GoodPayload EXCEPT ![20] = (@ + 1) % 256]

P_mkey_john == MkeyPair(1, <<171, 205>>, <<1, 2>>, 0, 2048, <<>>)
P_ckey_john == CkeyPair(PubCompressed, <<17, 34, 51>>)
P_ckey_empty == CkeyPair(PubCompressed, <<>>)
P_ckey_cut_value == TruncateValue(CkeyPair(PubCompressed, <<17, 34, 51>>), 2)
P_ckey_cut_key == TruncateKey(CkeyPair(PubCompressed, <<17, 34, 51>>), 33)
P_ckey_short_key == TruncateKey(CkeyPair(PubCompressed, <<17, 34, 51>>), 30)
P_unknown == Pair(Ser_string(<<102, 111, 111>>) \o <<9>>, <<1, 2, 3>>)
P_unknown_ckeys == Pair(Ser_string(Tag_ckey \o <<115>>) \o Ser_string(PubCompressed),
                        Ser_string(<<17, 34, 51>>))
P_key == KeyPair(PubUncompressed, Secret1)
P_flag_empty == SettingPair(<<102, 88>>, <<>>)
P_flag == SettingPair(<<102, 88>>, <<1>>)
P_tx == TxPair(Repeat(5, 32), 1, 0)

P_mkey_dump == MkeyPair(1, <<171, 205>>, DumpSalt, 0, DumpIterations, <<>>)
P_ckey_good == CkeyPair(PubCompressed, GoodPayload)
P_ckey_corrupt == CkeyPair(PubCompressed, CorruptPayload)
P_ckey_cut_payload == TruncateValue(CkeyPair(PubCompressed, GoodPayload), 32)
\* a second master key record of the same wallet, with another salt
OtherSalt == <<8, 7, 6, 5, 4, 3, 2, 1>>
P_mkey_other == MkeyPair(2, <<171, 205>>, OtherSalt, 0, DumpIterations, <<>>)

WellFormedPairs == {P_mkey_john, P_ckey_john, P_ckey_empty, P_key, P_flag, P_tx,
                    P_mkey_dump, P_ckey_good, P_ckey_corrupt}
TruncatedPairs == {P_ckey_cut_value, P_ckey_cut_key, P_ckey_short_key,
                   P_flag_empty, P_ckey_cut_payload}
UnknownPairs == {P_unknown, P_unknown_ckeys}

\* what the iterator yields in a run of each consumer
PoolOf(c) ==
    IF c = "read_wallet"
    THEN {P_mkey_john, P_ckey_john, P_ckey_empty, P_ckey_cut_value, P_ckey_cut_key,
          P_unknown, P_unknown_ckeys, P_key, P_flag_empty, P_tx}
    ELSE {P_mkey_dump, P_ckey_good, P_ckey_corrupt, P_ckey_cut_payload,
          P_ckey_short_key, P_unknown, P_unknown_ckeys, P_key}
         \cup (IF c = "ComprehensiveWalletManager" THEN {P_mkey_other} ELSE {})

-----------------------------------------------------------------------------
(* Specification SpecWallet: runs of read_wallet + generate_john_hash and   *)
(* of the dump_wallet of the two dumpers over a pair stream                 *)

WalletPath == <<"/", "h", "/", "w", "a", "l", "l", "e", "t", ".", "d", "a", "t">>

Consumers == {"read_wallet", "WalletDumper", "ComprehensiveWalletManager"}

\* vers of read_wallet: -1 keeps the address type, another value sets it
Versions == {-1, 111}

IdleWallet ==
    /\ phase = "idle"
    /\ consumer = "none"
    /\ db = <<>>
    /\ idx = 0
    /\ delivered = <<>>
    /\ json_db = EmptyDict
    /\ wallet_data = EmptyDict
    /\ john = None
    /\ addrtype = 0
    /\ network = "bitcoin"
    /\ passphrase = <<>>

\* no device opened, no pass run
NoDevice == [data |-> <<>>, bad |-> {}]
IdleScan == device = NoDevice /\ scan = [pass |-> "none"]

IdleRecover == rec_key = <<>> /\ rec_out = [op |-> "none"] /\ IdleScan

\* read_wallet up to the call of parse_wallet: the global addrtype is set
\* from vers and not restored afterwards
StartReadWallet(vers) ==
    /\ phase = "idle"
    /\ phase' = "parsing"
    /\ consumer' = "read_wallet"
    /\ addrtype' = IF vers > -1 THEN vers ELSE addrtype
    /\ json_db' = NewJsonDb
    /\ wallet_data' = EmptyDict
    /\ db' = <<>> /\ idx' = 0 /\ delivered' = <<>> /\ john' = None
    /\ UNCHANGED <<network, passphrase, streamVars, recoverVars>>

\* WalletDumper.dump_wallet up to the call of parse_wallet
StartWalletDumper(pass) ==
    /\ phase = "idle"
    /\ phase' = "parsing"
    /\ consumer' = "WalletDumper"
    /\ passphrase' = pass
    /\ wallet_data' = NewWalletData(None)
    /\ json_db' = EmptyDict
    /\ db' = <<>> /\ idx' = 0 /\ delivered' = <<>> /\ john' = None
    /\ UNCHANGED <<network, addrtype, streamVars, recoverVars>>

\* ComprehensiveWalletManager(network).dump_wallet up to parse_wallet
StartManager(net, pass) ==
    /\ phase = "idle"
    /\ phase' = "parsing"
    /\ consumer' = "ComprehensiveWalletManager"
    /\ network' = net
    /\ passphrase' = pass
    /\ wallet_data' = NewWalletData(Some(net))
    /\ json_db' = EmptyDict
    /\ db' = <<>> /\ idx' = 0 /\ delivered' = <<>> /\ john' = None
    /\ UNCHANGED <<addrtype, streamVars, recoverVars>>

\* item_callback of the running consumer: [exc, json_db, wallet_data]
Callback(record_type, d) ==
    CASE consumer = "read_wallet" ->
            LET r == read_wallet_item_callback(json_db, record_type, d, addrtype)
            IN [exc |-> r.exc, json_db |-> r.json_db, wallet_data |-> wallet_data]
      [] consumer = "WalletDumper" ->
            [exc |-> "none", json_db |-> json_db,
             wallet_data |-> _process_wallet_record(record_type, d, wallet_data,
                                                    passphrase, addrtype)]
      [] consumer = "ComprehensiveWalletManager" ->
            [exc |-> "none", json_db |-> json_db,
             wallet_data |-> _process_comprehensive_wallet_record(
                                 network, record_type, d, wallet_data,
                                 passphrase, addrtype)]

\* one turn of the for loop of parse_wallet: the iterator yields a pair, the
\* pair is decoded and handed to item_callback; an exception outside
\* SkippedExceptions leaves parse_wallet
ParseStep(pair) ==
    /\ phase = "parsing"
    /\ Len(db) < MaxPairs
    /\ db' = Append(db, pair)
    /\ idx' = idx + 1
    /\ LET r == DecodePair(pair.key, pair.value)
       IN IF r.exc # "none"
          THEN /\ phase' = IF r.exc \in SkippedExceptions THEN "parsing" ELSE "raised"
               /\ UNCHANGED <<delivered, json_db, wallet_data>>
          ELSE LET cb == Callback(r.record_type, r.d)
               IN /\ delivered' = Append(delivered, idx + 1)
                  /\ json_db' = cb.json_db
                  /\ wallet_data' = cb.wallet_data
                  /\ phase' = IF cb.exc = "none" \/ cb.exc \in SkippedExceptions
                              THEN "parsing" ELSE "raised"
    /\ UNCHANGED <<consumer, john, addrtype, network, passphrase,
                   streamVars, recoverVars>>

\* the iterator is exhausted: parse_wallet returns, db.close(); the dumpers
\* post-process wallet_data and return it
ParseEnd ==
    /\ phase = "parsing"
    /\ phase' = "returned"
    /\ wallet_data' =
          CASE consumer = "WalletDumper" -> _post_process_wallet_data(wallet_data)
            [] consumer = "ComprehensiveWalletManager" ->
                  _post_process_comprehensive_wallet_data(wallet_data)
            [] OTHER -> wallet_data
    /\ UNCHANGED <<consumer, db, idx, delivered, json_db, john, addrtype,
                   network, passphrase, streamVars, recoverVars>>

\* bitcoin2john after read_wallet: generate_john_hash on the snapshot
GenerateJohnHash ==
    /\ phase = "returned"
    /\ consumer = "read_wallet"
    /\ phase' = "hashed"
    /\ john' = generate_john_hash(WalletPath, json_db)
    /\ UNCHANGED <<consumer, db, idx, delivered, json_db, wallet_data, addrtype,
                   network, passphrase, streamVars, recoverVars>>

\* the call is over; the module global addrtype keeps its value
NextCall ==
    /\ phase \in {"returned", "hashed", "raised"}
    /\ phase' = "idle"
    /\ consumer' = "none"
    /\ db' = <<>> /\ idx' = 0 /\ delivered' = <<>> /\ john' = None
    /\ json_db' = EmptyDict /\ wallet_data' = EmptyDict
    /\ network' = "bitcoin" /\ passphrase' = <<>>
    /\ UNCHANGED <<addrtype, streamVars, recoverVars>>

-----------------------------------------------------------------------------
(* Specification SpecKeys: the handling of one recovered private key      *)
(* (recover_from_device) and of the key operations it calls               *)

MaxScalar == 255

KeysInit ==
    /\ IdleStream
    /\ phase = "idle" /\ consumer = "none" /\ db = <<>> /\ idx = 0
    /\ delivered = <<>> /\ json_db = EmptyDict /\ wallet_data = EmptyDict
    /\ john = None /\ addrtype = 0 /\ passphrase = <<>>
    /\ network \in Networks
    /\ rec_key \in {to_bytes(k, 32) : k \in 0..MaxScalar}
    /\ rec_out = [op |-> "none"]
    /\ IdleScan

\* EllipticCurveCrypto.private_key_to_public_key on the key
PrivateKeyToPublicKey ==
    /\ rec_out.op = "none"
    /\ rec_out' = [op |-> "private_key_to_public_key",
                   res |-> private_key_to_public_key(rec_key)]
    /\ UNCHANGED <<rec_key, streamVars, walletVars, scanVars>>

\* ComprehensiveWalletManager._private_key_to_wif on the key
PrivateKeyToWif ==
    /\ rec_out.op = "none"
    /\ \E compressed \in BOOLEAN :
          rec_out' = [op |-> "_private_key_to_wif", compressed |-> compressed,
                      res |-> _private_key_to_wif(network, rec_key, compressed)]
    /\ UNCHANGED <<rec_key, streamVars, walletVars, scanVars>>

\* the body of the loop of recover_from_device for one key: public key,
\* address and WIF; any exception drops the key with a warning
RecoverKey ==
    /\ rec_out.op = "none"
    /\ LET public_key == private_key_to_public_key(Slice(rec_key, 0, 32))
           wif == _private_key_to_wif(network, Slice(rec_key, 0, 32), FALSE)
       IN rec_out' =
            IF Len(rec_key) < 32 \/ public_key.exc # "none" \/ wif.exc # "none"
            THEN [op |-> "recover", processed |-> FALSE]
            ELSE [op |-> "recover", processed |-> TRUE,
                  private_key |-> hexlify(Slice(rec_key, 0, 32)),
                  wif |-> wif.val,
                  public_key |-> hexlify(public_key.val),
                  address |-> public_key_to_bc_address(public_key.val, addrtype)]
    /\ UNCHANGED <<rec_key, streamVars, walletVars, scanVars>>

-----------------------------------------------------------------------------
(* Specification SpecBase58: calls of the base58 functions of             *)
(* bitcoin2john.py on byte strings                                        *)

MaxB58Len == 3
B58Bytes == {0, 1, 57, 255}

RECURSIVE ByteStrings(_)
ByteStrings(n) ==
    IF n = 0 THEN {<<>>}
    ELSE ByteStrings(n - 1)
         \cup {Append(b, x) : b \in {s \in ByteStrings(n - 1) : Len(s) = n - 1},
                              x \in B58Bytes}

\* b58encode(v), then b58decode of the result with length = len(v)
Base58RoundTrip(v) ==
    /\ rec_out.op = "none"
    /\ rec_key' = v
    /\ rec_out' = [op |-> "b58encode", encoded |-> b58encode(v),
                   decoded |-> b58decode(b58encode(v), Some(Len(v)))]
    /\ UNCHANGED <<streamVars, walletVars, scanVars>>

\* hash_160_to_bc_address(b) under addrtype = vers, then b58decode of the
\* address with the lengths len(b) + 1 and len(b) + 5
Base58Check(vers, b) ==
    /\ rec_out.op = "none"
    /\ rec_key' = b
    /\ rec_out' = [op |-> "hash_160_to_bc_address", version |-> vers,
                   encoded |-> hash_160_to_bc_address(b, vers),
                   decoded |-> b58decode(hash_160_to_bc_address(b, vers),
                                         Some(Len(b) + 1)),
                   decoded_whole |-> b58decode(hash_160_to_bc_address(b, vers),
                                               Some(Len(b) + 5))]
    /\ UNCHANGED <<streamVars, walletVars, scanVars>>

B58Versions == {0, 5, 111}

Base58Init == IdleStream /\ IdleWallet /\ IdleRecover

Base58Next ==
    \/ \E v \in ByteStrings(MaxB58Len) : Base58RoundTrip(v)
    \/ \E vers \in B58Versions, b \in ByteStrings(MaxB58Len) : Base58Check(vers, b)

SpecBase58 == Base58Init /\ [][Base58Next]_vars

-----------------------------------------------------------------------------
(* Specification SpecCompact: write_compact_size into a new BCDataStream, *)
(* then read_compact_size                                                 *)

MaxCompactSize == 300

\* 2^16 - 1, 2^16, 2^32 - 1, 2^32, 2^64 - 1 and 2^64 as digits
WideEdges ==
    {<<255, 255>>, <<0, 0, 1>>, <<255, 255, 255, 255>>, <<0, 0, 0, 0, 1>>,
     <<255, 255, 255, 255, 255, 255, 255, 255>>, <<0, 0, 0, 0, 0, 0, 0, 0, 1>>}

CompactSizes == {WideOf(n) : n \in 0..MaxCompactSize} \cup WideEdges

\* ds = BCDataStream(); ds.write_compact_size(size)
WriteCompactSize(size) ==
    /\ stream.isnone /\ last.op = "none"
    /\ stream' = write_compact_size_wide(stream, size)
    /\ last' = [op |-> "write_compact_size", n |-> size, short |-> FALSE,
                exc |-> "none", val |-> <<>>]
    /\ UNCHANGED <<walletVars, recoverVars>>

\* ds.read_compact_size() after the write
ReadCompactSizeBack ==
    /\ last.op = "write_compact_size"
    /\ stream' = read_compact_size_wide(stream).s
    /\ last' = [op |-> "read_compact_size", n |-> last.n, short |-> FALSE,
                exc |-> read_compact_size_wide(stream).exc,
                val |-> read_compact_size_wide(stream).val]
    /\ UNCHANGED <<walletVars, recoverVars>>

CompactInit == IdleStream /\ IdleWallet /\ IdleRecover

CompactNext ==
    \/ \E size \in CompactSizes : WriteCompactSize(size)
    \/ ReadCompactSizeBack

SpecCompact == CompactInit /\ [][CompactNext]_vars

-----------------------------------------------------------------------------
(* Specification SpecScan: the four passes of the scanner over one device *)

MaxRecords == 2

ScanKey1 == [i \in 1..32 |-> i]
ScanKey2 == [i \in 1..32 |-> 100 + i]

\* a prekey and what follows it: 32 key bytes and then a postkey sequence,
\* a postkey sequence after one other byte, or neither
KeyStructures ==
    {prekeys[1] \o ScanKey1 \o postkeys[1], prekeys[2] \o ScanKey2 \o postkeys[2],
     prekeys[1] \o ScanKey2 \o <<17, 129, 165, 48>>,
     prekeys[1] \o ScanKey1 \o <<0, 0, 0, 0>>}

\* what a device holds after a stretch of zero bytes
KeyRecords ==
    {Repeat(0, gap) \o k : gap \in {0, 24}, k \in KeyStructures}

RECURSIVE DeviceBytes(_)
DeviceBytes(n) ==
    IF n = 0 THEN {Repeat(0, 20)}
    ELSE DeviceBytes(n - 1) \cup {d \o r : d \in DeviceBytes(n - 1), r \in KeyRecords}

\* the offsets of a failing read: none, or one offset of the device
BadOffsets == {{}, {5}, {40}, {70}}

Devices ==
    {[data |-> d \o Repeat(0, tail), bad |-> b] :
        d \in DeviceBytes(MaxRecords), tail \in {0, 30}, b \in BadOffsets}

FirstIncs == {16, 64}
ShrinkIncs == {8, 32}

\* first_read(device, size, prekeys, inc) with size the size of the device
FirstRead(inc) ==
    /\ scan.pass = "none"
    /\ scan' = [pass |-> "first_read", exc |-> "none", inc |-> inc,
                ranges |-> first_read(device, Len(device.data), inc)]
    /\ UNCHANGED <<device, rec_key, rec_out, streamVars, walletVars>>

\* shrink_intervals(device, ranges, prekeys, inc) on the ranges of first_read
ShrinkIntervals(inc) ==
    /\ scan.pass = "first_read"
    /\ scan' = [pass |-> "shrink_intervals",
                exc |-> shrink_intervals(device, scan.ranges, inc).exc,
                inc |-> <<scan.inc, inc>>, coarse |-> scan.ranges,
                ranges |-> shrink_intervals(device, scan.ranges, inc).val]
    /\ UNCHANGED <<device, rec_key, rec_out, streamVars, walletVars>>

\* find_offsets(device, ranges, prekeys) on the ranges of shrink_intervals
FindOffsets ==
    /\ scan.pass = "shrink_intervals" /\ scan.exc = "none"
    /\ scan' = IF find_offsets(device, scan.ranges).exc # "none"
               THEN [pass |-> "find_offsets", inc |-> scan.inc,
                     exc |-> find_offsets(device, scan.ranges).exc]
               ELSE [pass |-> "find_offsets", inc |-> scan.inc, exc |-> "none",
                     to_read |-> find_offsets(device, scan.ranges).val[1],
                     list_offsets |-> find_offsets(device, scan.ranges).val[2]]
    /\ UNCHANGED <<device, rec_key, rec_out, streamVars, walletVars>>

\* read_keys(device, list_offsets) on the offsets of find_offsets
ReadKeys ==
    /\ scan.pass = "find_offsets" /\ scan.exc = "none"
    /\ scan' = [pass |-> "read_keys", inc |-> scan.inc,
                exc |-> read_keys(device, scan.list_offsets).exc,
                list_offsets |-> scan.list_offsets,
                found_hexkeys |-> read_keys(device, scan.list_offsets).val]
    /\ UNCHANGED <<device, rec_key, rec_out, streamVars, walletVars>>

\* the four passes once more over the same device with the same block sizes
ScanAgain ==
    /\ scan.pass = "read_keys" /\ scan.exc = "none"
    /\ scan' = [pass |-> "again", inc |-> scan.inc, exc |-> "none",
                list_offsets |-> scan.list_offsets,
                found_hexkeys |-> scan.found_hexkeys,
                again_offsets |->
                   find_offsets(device,
                      shrink_intervals(device,
                         first_read(device, Len(device.data), scan.inc[1]),
                         scan.inc[2]).val).val[2],
                again_hexkeys |->
                   read_keys(device,
                      find_offsets(device,
                         shrink_intervals(device,
                            first_read(device, Len(device.data), scan.inc[1]),
                            scan.inc[2]).val).val[2]).val]
    /\ UNCHANGED <<device, rec_key, rec_out, streamVars, walletVars>>

ScanInit ==
    /\ IdleStream /\ IdleWallet
    /\ rec_key = <<>> /\ rec_out = [op |-> "none"]
    /\ device \in Devices
    /\ scan = [pass |-> "none"]

ScanNext ==
    \/ \E inc \in FirstIncs : FirstRead(inc)
    \/ \E inc \in ShrinkIncs : ShrinkIntervals(inc)
    \/ FindOffsets
    \/ ReadKeys
    \/ ScanAgain

SpecScan == ScanInit /\ [][ScanNext]_vars

-----------------------------------------------------------------------------
(* Specification SpecCurve: point_multiply(k, Q) for k = 0, 1, 2, ... on  *)
(* one point Q, next to the sum Q + ... + Q that point_add builds         *)

MaxMultiplier == 280

\* the points of the curve, and None
CurvePoints ==
    {<<x, y>> : x \in 0..(P - 1), y \in 0..(P - 1)} \cap
    {q \in (0..(P - 1)) \X (0..(P - 1)) :
        (q[2] * q[2]) % P = (q[1] * q[1] * q[1] + A * q[1] + B) % P}

\* EllipticCurveCrypto.point_multiply(k, rec_key) for the next k; sum is
\* the previous sum and rec_key added with point_add, order the first
\* k >= 1 at which the sum was None
PointMultiply ==
    /\ IF rec_out.op = "none" THEN TRUE ELSE rec_out.k < MaxMultiplier
    /\ rec_out' =
          IF rec_out.op = "none"
          THEN [op |-> "point_multiply", k |-> 0,
                res |-> point_multiply(0, rec_key), sum |-> Infinity, order |-> 0]
          ELSE [op |-> "point_multiply", k |-> rec_out.k + 1,
                res |-> point_multiply(rec_out.k + 1, rec_key),
                sum |-> point_add(rec_out.sum, rec_key),
                order |-> IF rec_out.order = 0
                             /\ point_add(rec_out.sum, rec_key) = Infinity
                          THEN rec_out.k + 1 ELSE rec_out.order]
    /\ UNCHANGED <<rec_key, streamVars, walletVars, scanVars>>

CurveInit ==
    /\ IdleStream /\ IdleWallet /\ IdleScan
    /\ rec_key \in CurvePoints \cup {Infinity}
    /\ rec_out = [op |-> "none"]

CurveNext == PointMultiply

SpecCurve == CurveInit /\ [][CurveNext]_vars

-----------------------------------------------------------------------------
(* Specification SpecPubKey: the public key of one scalar handed to       *)
(* compress_public_key (pywallet_full.py) and to the Taproot functions of *)
(* P2TR_tools.py                                                          *)

\* byte strings around the serialized public key pub: the key itself, its
\* X coordinate behind several first bytes, the key behind another first
\* byte, and strings of other lengths
PublicKeyInputs(pub) ==
    {pub, pub \o <<0>>}
        \cup {<<prefix>> \o Slice(pub, 1, 33) : prefix \in {0, 2, 3, 4, 7}}
        \cup {<<prefix>> \o Slice(pub, 1, 65) : prefix \in {0, 2, 6}}
        \cup {Slice(pub, 0, n) : n \in {0, 1, 32, 34, 64}}

\* a call and, when it returned, the call on its result
compress_twice(public_key_bytes, res) ==
    [op |-> "compress_public_key", arg |-> public_key_bytes, res |-> res,
     again |-> IF res.exc = "none" THEN compress_public_key(res.val) ELSE res]

\* EllipticCurveCrypto.compress_public_key on a byte string
CompressPublicKey ==
    /\ rec_out.op = "none"
    /\ private_key_to_public_key(rec_key).exc = "none"
    /\ \E public_key_bytes \in PublicKeyInputs(private_key_to_public_key(rec_key).val) :
          rec_out' = compress_twice(public_key_bytes,
                                    compress_public_key(public_key_bytes))
    /\ UNCHANGED <<rec_key, streamVars, walletVars, scanVars>>

\* the public key of the scalar compressed with compress_public_key, parsed
\* by coincurve and lifted with LiftX, the only function of the repository
\* that computes a Y from an X
decompress_lifted(lifted) ==
    IF lifted.exc # "none" THEN lifted ELSE NoExc(format_uncompressed(lifted.val))

decompress_parsed(pub_key) ==
    IF pub_key.exc # "none" THEN pub_key ELSE decompress_lifted(LiftX(pub_key.val))

decompress(compressed) == decompress_parsed(PublicKey(compressed))

Decompress ==
    /\ rec_out.op = "none"
    /\ private_key_to_public_key(rec_key).exc = "none"
    /\ rec_out' = [op |-> "decompress",
                   k |-> from_bytes(rec_key),
                   pub |-> private_key_to_public_key(rec_key).val,
                   res |-> decompress(compress_public_key(
                               private_key_to_public_key(rec_key).val).val)]
    /\ UNCHANGED <<rec_key, streamVars, walletVars, scanVars>>

\* the Y coordinates a public key of X coordinate x can have; 0 stands for
\* the Y of an object whose X is on no point
YsOf(x) ==
    IF \E y \in 0..(P - 1) : from_point(x, y).exc = "none"
    THEN {y \in 0..(P - 1) : from_point(x, y).exc = "none"}
    ELSE {0}

\* _P2TRUtils.LiftX on a key whose X coordinate is the integer of rec_key
LiftXCall ==
    /\ rec_out.op = "none"
    /\ \E y \in YsOf(from_bytes(rec_key)) :
          rec_out' = [op |-> "LiftX", pub_key |-> <<from_bytes(rec_key), y>>,
                      res |-> LiftX(<<from_bytes(rec_key), y>>)]
    /\ UNCHANGED <<rec_key, streamVars, walletVars, scanVars>>

\* _P2TRUtils.TweakPublicKey on a key whose X coordinate is the integer of
\* rec_key, and on the key of the same X and the other Y
TweakPublicKeyCall ==
    /\ rec_out.op = "none"
    /\ \E y \in YsOf(from_bytes(rec_key)) :
          rec_out' = [op |-> "TweakPublicKey", pub_key |-> <<from_bytes(rec_key), y>>,
                      res |-> TweakPublicKey(<<from_bytes(rec_key), y>>),
                      negated |-> TweakPublicKey(<<from_bytes(rec_key), (P - y) % P>>)]
    /\ UNCHANGED <<rec_key, streamVars, walletVars, scanVars>>

PubKeyInit ==
    /\ IdleStream /\ IdleWallet /\ IdleScan
    /\ rec_key \in {to_bytes(k, 32) : k \in 0..MaxScalar}
    /\ rec_out = [op |-> "none"]

PubKeyNext ==
    \/ CompressPublicKey
    \/ Decompress
    \/ LiftXCall
    \/ TweakPublicKeyCall

SpecPubKey == PubKeyInit /\ [][PubKeyNext]_vars

-----------------------------------------------------------------------------
(* Specifications *)

StreamInit == IdleStream /\ IdleWallet /\ IdleRecover

StreamNext ==
    \/ \E b \in StreamBytes : StreamWrite(b)
    \/ StreamClear
    \/ ReadBytes
    \/ ReadString
    \/ ReadBoolean
    \/ ReadCompactSize
    \/ ReadNum

SpecStream == StreamInit /\ [][StreamNext]_vars

Passphrases == {<<>>, RightPass, WrongPass}

WalletInit == IdleStream /\ IdleWallet /\ IdleRecover

WalletNext ==
    \/ \E vers \in Versions : StartReadWallet(vers)
    \/ \E pass \in {<<>>, WrongPass} : StartWalletDumper(pass)
    \/ \E net \in Networks, pass \in Passphrases : StartManager(net, pass)
    \/ \E pair \in PoolOf(consumer) : ParseStep(pair)
    \/ ParseEnd
    \/ GenerateJohnHash
    \/ NextCall

SpecWallet == WalletInit /\ [][WalletNext]_vars

KeysNext ==
    \/ PrivateKeyToPublicKey
    \/ PrivateKeyToWif
    \/ RecoverKey

SpecKeys == KeysInit /\ [][KeysNext]_vars

Init == WalletInit
Next == WalletNext
Spec == SpecWallet

-----------------------------------------------------------------------------
(* Properties *)

Running == phase \in {"parsing", "returned", "hashed", "raised"}

\* the key list of the snapshot of the running consumer
KeyList == IF consumer = "read_wallet" THEN json_db.keys ELSE wallet_data.keys

\* the entries of a key list that come from ckey records
CkeyEntries(keys) ==
    {i \in 1..Len(keys) : "encrypted_private_key" \in DOMAIN keys[i]}

TruncatedCkeyPairs == {P_ckey_cut_value, P_ckey_cut_key, P_ckey_short_key,
                       P_ckey_cut_payload}

MkeyPairs == {P_mkey_john, P_mkey_dump}

\* ParseStep has just handled a pair of the set
Handled(pairs) ==
    /\ phase = "parsing"
    /\ Len(db') = Len(db) + 1
    /\ db'[Len(db')] \in pairs

\* C1: parse_wallet raises nothing, and of the pairs the iterator has
\* yielded every well-formed recognized one has been delivered to the
\* callback, in stream order
C1_OnlyFailingPairLost ==
    /\ phase # "raised"
    /\ \A i \in 1..Len(db) :
          db[i] \in WellFormedPairs => \E j \in 1..Len(delivered) : delivered[j] = i
    /\ \A j, k \in 1..Len(delivered) : j < k => delivered[j] < delivered[k]

\* C2: a read with fewer bytes left than it needs raises
\* SerializationError and returns nothing, read_bytes(n) returns n bytes,
\* and read_cursor stays within the buffer
C2_ShortReadRaises ==
    /\ last.short => (last.exc = "SerializationError" /\ last.val = <<>>)
    /\ (last.op = "read_bytes" /\ last.exc = "none") => Len(last.val) = last.n
    /\ stream.read_cursor <= Len(stream.input)

\* C3: a truncated ckey pair adds no entry to the key list, and the stream
\* mkey, truncated ckey, unknown tag is decoded without an exception into
\* one master key and no ckey entry
C3_TruncatedCkeyAddsNothing ==
    /\ [][Handled(TruncatedCkeyPairs) => (KeyList' = KeyList /\ phase' = "parsing")]_vars
    /\ []((/\ phase \in {"returned", "hashed"}
           /\ Len(db) = 3
           /\ db[1] \in MkeyPairs
           /\ db[2] \in TruncatedCkeyPairs
           /\ db[3] \in UnknownPairs)
          => /\ CkeyEntries(KeyList) = {}
             /\ IF consumer = "read_wallet"
                THEN ~IsEmptyDict(json_db.mkey)
                ELSE "master_key" \in DOMAIN wallet_data.metadata)

\* C4: a pair with an unrecognized tag raises nothing and leaves the
\* snapshot of the running consumer as it was
C4_UnknownTagIgnored ==
    [][Handled(UnknownPairs) =>
          (json_db' = json_db /\ wallet_data' = wallet_data /\ phase' = "parsing")]_vars

\* an unknown pair has been handled after a key entry and a master key
\* were stored
C4_Witness ==
    /\ phase = "parsing"
    /\ Len(db) = 3
    /\ db[3] \in UnknownPairs
    /\ db[1] \in MkeyPairs
    /\ Len(KeyList) = 1

\* the text wallet.dat:$bitcoin$2$abcd$2$0102$2048$3$112233$0
ReferenceJohnLine ==
    <<"w", "a", "l", "l", "e", "t", ".", "d", "a", "t", ":",
      "$", "b", "i", "t", "c", "o", "i", "n", "$", "2", "$", "a", "b", "c", "d",
      "$", "2", "$", "0", "1", "0", "2", "$", "2", "0", "4", "8",
      "$", "3", "$", "1", "1", "2", "2", "3", "3", "$", "0">>

\* C5: an emitted hash line is basename, ":", "$bitcoin$" and then the
\* master encrypted key, the salt, the iterations, the encrypted private key
\* of the first ckey entry and the method, each hex field after its length
\* in bytes; the reference wallet gives the reference line
C5_JohnHashFormat ==
    john # None =>
       LET mkey   == json_db.mkey
           ckeys  == CkeyEntries(json_db.keys)
           first  == CHOOSE i \in ckeys : \A m \in ckeys : i <= m
           enc    == json_db.keys[first].encrypted_private_key
           field(hex) == str(Len(unhexlify(hex))) \o <<"$">> \o hex
       IN /\ ckeys # {}
          /\ john[1] = <<"w", "a", "l", "l", "e", "t", ".", "d", "a", "t", ":">>
                         \o Str_bitcoin
                         \o field(mkey.encrypted_key) \o <<"$">>
                         \o field(mkey.salt) \o <<"$">>
                         \o str(mkey.nDerivationIterations) \o <<"$">>
                         \o field(enc) \o <<"$">>
                         \o str(mkey.nDerivationMethod)
          /\ (db = <<P_mkey_john, P_ckey_john>> => john[1] = ReferenceJohnLine)

\* the hash line of the reference wallet has been emitted
C5_Witness ==
    /\ phase = "hashed"
    /\ db = <<P_mkey_john, P_ckey_john>>
    /\ john # None

\* C6: generate_john_hash returns a hash exactly when the snapshot holds a
\* master key and at least one ckey entry
C6_HashIffMkeyAndCkey ==
    phase = "hashed" =>
       (john # None <=>
           (~IsEmptyDict(json_db.mkey) /\ CkeyEntries(json_db.keys) # {}))

\* C7: _private_key_to_wif returns, without raising, the base58 text of
\* version ++ key ++ (01 if compressed) ++ the first 4 bytes of the double
\* SHA256 of that prefix
C7_WifEncodes ==
    rec_out.op = "_private_key_to_wif" =>
       /\ rec_out.res.exc = "none"
       /\ LET prefix == <<private_key_version(network)>> \o rec_key
                           \o (IF rec_out.compressed THEN <<1>> ELSE <<>>)
          IN rec_out.res.val = b58encode(prefix \o Slice(Hash(prefix), 0, 4))

\* C8: every address of a key dumped by the manager carries the address
\* version of the manager's network
C8_AddressOfManagerNetwork ==
    (consumer = "ComprehensiveWalletManager" /\ Running) =>
       \A i \in 1..Len(wallet_data.keys) :
          LET e == wallet_data.keys[i]
          IN /\ e.address_uncompressed =
                   hash_160_to_bc_address(hash_160(unhexlify(e.public_key)),
                                          address_version(network))
             /\ e.address_compressed =
                   hash_160_to_bc_address(hash_160(unhexlify(e.public_key_compressed)),
                                          address_version(network))

\* C9: private_key_to_public_key fails for the scalars 0 and >= N and
\* returns 04 ++ X ++ Y of k.G for the others
C9_ScalarRange ==
    rec_out.op = "private_key_to_public_key" =>
       LET k == from_bytes(rec_key)
       IN IF k = 0 \/ k >= N
          THEN rec_out.res.exc = "ValueError"
          ELSE /\ rec_out.res.exc = "none"
               /\ rec_out.res.val = <<4>> \o to_bytes(point_multiply(k, G)[1], 32)
                                          \o to_bytes(point_multiply(k, G)[2], 32)

\* C10: a ckey decrypted with another passphrase than the wallet's, or with
\* a corrupted payload, keeps private_key = 'ENCRYPTED' and does not get the
\* status 'success'
C10_FailedDecryptionStoresNothing ==
    (consumer \in {"WalletDumper", "ComprehensiveWalletManager"} /\ Running) =>
       \A i \in 1..Len(wallet_data.keys) :
          LET e == wallet_data.keys[i]
          IN ("decryption_status" \in DOMAIN e
              /\ (passphrase # RightPass
                  \/ e.encrypted_private_key # hexlify(GoodPayload)))
             => (e.private_key = Str_ENCRYPTED /\ e.decryption_status # "success")

\* the plaintext of a ckey payload when the key is bytes 0..31 and the
\* initialization vector bytes 32..47 of the derived key, and the whole
\* payload is the ciphertext
DerivedKeyOf(wd, passphrase_) ==
    pbkdf2(passphrase_, unhexlify(wd.metadata.master_key.salt[1]),
           wd.metadata.master_key.iterations[1], 64)

PlaintextUnderDerivedIV(derived_key, payload) ==
    cbc_decrypt(Slice(derived_key, 0, 32), Slice(derived_key, 32, 48), payload)

\* the entries of the manager that hold a decrypted private key
DecryptedEntry(e) ==
    "decryption_status" \in DOMAIN e /\ e.private_key # Str_ENCRYPTED

\* C11: the private key the manager stores for a ckey is the first 32 bytes
\* of the AES-CBC decryption of the whole payload under key = derived key
\* bytes 0..31 and initialization vector = derived key bytes 32..47
C11_IVFromDerivedKey ==
    (consumer = "ComprehensiveWalletManager" /\ Running) =>
       \A i \in 1..Len(wallet_data.keys) :
          DecryptedEntry(wallet_data.keys[i]) =>
             wallet_data.keys[i].private_key =
                hexlify(Slice(PlaintextUnderDerivedIV(
                                  DerivedKeyOf(wallet_data, passphrase),
                                  unhexlify(wallet_data.keys[i].encrypted_private_key)),
                              0, 32))

\* n applications of HMAC-SHA512 keyed with the password, starting from u
RECURSIVE HmacChain(_, _, _)
HmacChain(password, u, n) ==
    IF n = 0 THEN u ELSE hmac_sha512(password, HmacChain(password, u, n - 1))

\* block Bi: HMAC applied once to salt ++ the big-endian block index and
\* then iterations - 1 more times to the previous output
DerivedBlock(password, salt, iterations, i) ==
    HmacChain(password, salt \o <<0, 0, 0, i>>, iterations)

\* the first 64 bytes of B1 ++ B2
ReferenceDerivedKey(password, salt, iterations) ==
    Slice(DerivedBlock(password, salt, iterations, 1)
          \o DerivedBlock(password, salt, iterations, 2), 0, 64)

\* the derived key of the wallet: from the passphrase and the salt and
\* iteration count of the wallet's master key record
WalletDerivedKey ==
    ReferenceDerivedKey(passphrase,
                        unhexlify(wallet_data.metadata.master_key.salt[1]),
                        wallet_data.metadata.master_key.iterations[1])

C14_LeadingZerosRoundTrip ==
    rec_out.op = "b58encode" =>
       /\ LeadingCount(rec_out.encoded, b58chars[1]) = LeadingCount(rec_key, 0)
       /\ rec_out.decoded = Some(rec_key)

\* C13: b58decode of the address hash_160_to_bc_address builds from the
\* version byte v and the bytes b, with the expected length len(b) + 1,
\* returns v ++ b
C13_Base58CheckRoundTrip ==
    rec_out.op = "hash_160_to_bc_address" =>
       rec_out.decoded = Some(<<rec_out.version>> \o rec_key)

\* the length the encoding of n has: 1 byte for n < 253, 3 for n < 2^16,
\* 5 for n < 2^32 and 9 otherwise
EncodedLength(n) ==
    IF Len(n) = 0 \/ (Len(n) = 1 /\ n[1] < 253) THEN 1
    ELSE IF Len(n) <= 2 THEN 3
    ELSE IF Len(n) <= 4 THEN 5
    ELSE 9

\* the prefix byte of an encoding of the given length
PrefixOf(length) ==
    CASE length = 3 -> 253 [] length = 5 -> 254 [] length = 9 -> 255

\* the sizes the round trip is stated for: 0, 1, 252, 253, 65535, 65536,
\* 2^32 - 1 and 2^32
RoundTripSizes ==
    {<<>>, <<1>>, <<252>>, <<253>>, <<255, 255>>, <<0, 0, 1>>,
     <<255, 255, 255, 255>>, <<0, 0, 0, 0, 1>>}

\* C15: write_compact_size(n) into a new stream and then read_compact_size
\* returns n with read_cursor at the end of the buffer; the encoding has 1
\* byte for n < 253, and else the prefix 0xFD, 0xFE or 0xFF followed by the
\* 2, 4 or 8 little-endian bytes of n
C15_CompactSizeRoundTrip ==
    (last.op = "read_compact_size" /\ last.n \in RoundTripSizes) =>
       /\ last.exc = "none"
       /\ last.val = last.n
       /\ stream.read_cursor = Len(stream.input)
       /\ Len(stream.input) = EncodedLength(last.n)
       /\ IF Len(stream.input) = 1
          THEN WideOf(stream.input[1]) = last.n
          ELSE /\ stream.input[1] = PrefixOf(Len(stream.input))
               /\ \A i \in 2..Len(stream.input) :
                     stream.input[i] = IF i - 1 <= Len(last.n) THEN last.n[i - 1]
                                                               ELSE 0

C15_Witness ==
    /\ last.op = "read_compact_size"
    /\ last.n = <<0, 0, 0, 0, 1>>
    /\ last.val = <<0, 0, 0, 0, 1>>
    /\ Len(stream.input) = 9

\* the passes that have run to their end on the device
ScanDone(pass) == scan.pass = pass /\ scan.exc = "none"

\* the 32 bytes right after the prekey whose last byte is at offset o, and
\* the bytes after them
KeyAfterMarker(o) == Slice(device.data, o + 1, o + 33)
AfterKey(o) == Slice(device.data, o + 33, Len(device.data))

\* the offsets find_offsets reported whose prekey is followed by 32 key
\* bytes and a postkey sequence
KeyOffsets ==
    {n \in 1..Len(scan.list_offsets) :
        /\ Len(KeyAfterMarker(scan.list_offsets[n])) = 32
        /\ check_postkeys(AfterKey(scan.list_offsets[n]), postkeys)}

\* C16: read_keys returns hex(K) for every reported prekey that is followed
\* by 32 key bytes K and a postkey sequence, and nothing for a prekey whose
\* 32 following bytes are not followed by a postkey sequence
C16_KeyWindow ==
    ScanDone("read_keys") =>
       {scan.found_hexkeys[i] : i \in 1..Len(scan.found_hexkeys)} =
          {hexlify(KeyAfterMarker(scan.list_offsets[n])) : n \in KeyOffsets}

\* C17: no pass is left by the exception of a failing device read
C17_ReadFailureDoesNotAbort ==
    scan.pass \in {"first_read", "shrink_intervals", "find_offsets", "read_keys"}
       => scan.exc # "OSError(EIO)"

NoDuplicates(list) ==
    \A i, j \in 1..Len(list) : list[i] = list[j] => i = j

\* the 40 bytes read_keys reads for the offset o, the key it takes from
\* them and whether it accepts them
WindowAt(o) == Slice(device.data, o + 1, o + 41)
WindowKey(o) == hexlify(Slice(WindowAt(o), 1, 33))
WindowAccepted(o) == check_postkeys(Slice(WindowAt(o), 33, 39), postkeys)

\* the index in list_offsets of the first offset at which hexkey is accepted
FirstAccepted(hexkey) ==
    CHOOSE n \in 1..Len(scan.list_offsets) :
       /\ WindowKey(scan.list_offsets[n]) = hexkey
       /\ WindowAccepted(scan.list_offsets[n])
       /\ \A m \in 1..(n - 1) :
             ~(WindowKey(scan.list_offsets[m]) = hexkey
               /\ WindowAccepted(scan.list_offsets[m]))

bitcoin2john_return(phase_, john_) ==
    IF phase_ = "raised" THEN None ELSE john_

\* main: sys.exit(1) when the result is None
main_exit_status(result) == IF result = None THEN 1 ELSE 0

\* what the caller of bitcoin2john and of main sees
CallerSees(phase_, john_) ==
    [result |-> bitcoin2john_return(phase_, john_),
     status |-> main_exit_status(bitcoin2john_return(phase_, john_))]

\* C19: for a wallet of which every record was decoded and that holds no
\* encrypted key, the return value or the exit status differs from those
\* of a run that an exception ended
C19_NoKeysDistinctFromFailure ==
    (consumer = "read_wallet" /\ phase = "hashed" /\ john = None
        /\ Len(delivered) = Len(db))
       => CallerSees(phase, john) # CallerSees("raised", None)

\* y^2 = x^3 + 7 (mod P)
OnCurve(q) == (q[2] * q[2]) % P = (q[1] * q[1] * q[1] + 7) % P

\* C20: point_multiply(k, Q) is Q added to itself k times with point_add;
\* it is None exactly when k is a multiple of the order of Q; a result that
\* is not None satisfies the curve equation
C20_MultiplyIsRepeatedAdd ==
    rec_out.op = "point_multiply" =>
       /\ rec_out.res = rec_out.sum
       /\ rec_out.res = Infinity <=>
             (rec_out.k = 0 \/ (rec_out.order # 0 /\ rec_out.k % rec_out.order = 0))
       /\ rec_out.res # Infinity => OnCurve(rec_out.res)
       /\ rec_out.order # 0 => N % rec_out.order = 0

\* the second multiple of the order of a point of the curve
C20_Witness ==
    /\ rec_out.op = "point_multiply"
    /\ rec_key # Infinity
    /\ rec_out.order > 1
    /\ rec_out.k = 2 * rec_out.order
    /\ rec_out.res = Infinity

-----------------------------------------------------------------------------
(* C21: compress_public_key *)

CompressCalled == rec_out.op = "compress_public_key"

\* 0x02 or 0x03 by the last byte of Y, then X
CompressedForm(arg) == <<IF arg[65] % 2 = 0 THEN 2 ELSE 3>> \o SubSeq(arg, 2, 33)

\* C21 as stated: a 65-byte key 0x04 ++ X ++ Y gives 0x02 ++ X for an even Y
\* and 0x03 ++ X for an odd Y, an already-compressed 33-byte key (first byte
\* 0x02 or 0x03) comes back unchanged, and every other input is rejected
\* with an error
C21_OtherInputsRejected ==
    CompressCalled =>
        IF Len(rec_out.arg) = 65 /\ rec_out.arg[1] = 4
        THEN rec_out.res = NoExc(CompressedForm(rec_out.arg))
        ELSE IF Len(rec_out.arg) = 33 /\ rec_out.arg[1] \in {2, 3}
        THEN rec_out.res = NoExc(rec_out.arg)
        ELSE rec_out.res.exc = "ValueError"

\* C21: a 65-byte key 0x04 ++ X ++ Y gives 0x02 ++ X for an even Y and
\* 0x03 ++ X for an odd Y; every 33-byte input comes back unchanged, whatever
\* its first byte; compressing a result again gives the same result; every
\* input of another length, and every 65-byte input that does not start
\* with 0x04, is rejected with ValueError
C21_CompressPublicKey ==
    CompressCalled =>
        /\ IF Len(rec_out.arg) = 65 /\ rec_out.arg[1] = 4
           THEN rec_out.res = NoExc(CompressedForm(rec_out.arg))
           ELSE IF Len(rec_out.arg) = 33
           THEN rec_out.res = NoExc(rec_out.arg)
           ELSE rec_out.res.exc = "ValueError"
        /\ rec_out.again = rec_out.res

\* a key with an odd Y was compressed
C21_Witness ==
    /\ CompressCalled
    /\ Len(rec_out.arg) = 65 /\ rec_out.arg[1] = 4 /\ rec_out.arg[65] % 2 = 1
    /\ rec_out.res.exc = "none" /\ rec_out.res.val[1] = 3

-----------------------------------------------------------------------------
(* C22, C23, C24: LiftX and TweakPublicKey *)

Decompressed == rec_out.op = "decompress" /\ rec_out.k \in 1..(N - 1)

LiftXCalled == rec_out.op = "LiftX"

\* x is the X coordinate of a point of y^2 = x^3 + 7 over the field
HasRoot(x) ==
    x < P /\ \E y \in 0..(P - 1) : (y * y) % P = (x * x * x + 7) % P

NegatedKey(pub) ==
    SubSeq(pub, 1, 64) \o <<(P - pub[65]) % 256>>

C23_LiftX ==
    LiftXCalled =>
        IF ~HasRoot(rec_out.pub_key[1])
        THEN rec_out.res = Raise("ValueError")
        ELSE /\ rec_out.res.exc = "none"
             /\ rec_out.res.val[1] = rec_out.pub_key[1]
             /\ rec_out.res.val[2] \in 0..(P - 1)
             /\ rec_out.res.val[2] % 2 = 0
             /\ (rec_out.res.val[2] * rec_out.res.val[2]) % P
                    = (rec_out.pub_key[1] * rec_out.pub_key[1] * rec_out.pub_key[1] + 7) % P

\* LiftX was called on a key with an odd Y and returned the other point
C23_Witness ==
    /\ LiftXCalled
    /\ rec_out.pub_key[2] % 2 = 1
    /\ rec_out.res.exc = "none" /\ rec_out.res.val[2] # rec_out.pub_key[2]

TweakCalled ==
    /\ rec_out.op = "TweakPublicKey"
    /\ HasRoot(rec_out.pub_key[1])

\* int(SHA256(taghash ++ taghash ++ X)) for the 32 bytes of x
TapTweakOf(x) ==
    scalar_of(sha256(TAP_TWEAK_SHA256 \o TAP_TWEAK_SHA256 \o to_bytes(x, 32)))

\* the point of X coordinate x with an even Y
EvenPoint(x) ==
    <<x, CHOOSE y \in 0..(P - 1) : y % 2 = 0 /\ (y * y) % P = (x * x * x + 7) % P>>

\* the point TweakPublicKey is to return the X coordinate of
TweakedPoint(x) == point_add(EvenPoint(x), point_multiply(TapTweakOf(x), G))

\* coincurve multiplies by a scalar in 1..N-1 only and returns no point at
\* infinity (for SHA-256 and secp256k1: all but a 2^-128 part of the digests)
Tweakable(x) == TapTweakOf(x) \in 1..(N - 1) /\ TweakedPoint(x) # Infinity

\* C24: for a valid curve point, TweakPublicKey gives the same outcome for
\* the key and for the key of the same X and the opposite Y, and it returns
\* the 32 bytes, big-endian, of the X coordinate of
\* LiftX(pub_key) + int(SHA256(taghash ++ taghash ++ X)) * G wherever
\* coincurve accepts the tweak as a scalar and the sum as a point
C24_TweakPublicKey ==
    TweakCalled =>
        /\ rec_out.res = rec_out.negated
        /\ IF Tweakable(rec_out.pub_key[1])
           THEN /\ rec_out.res = NoExc(to_bytes(TweakedPoint(rec_out.pub_key[1])[1], 32))
                /\ Len(rec_out.res.val) = 32
           ELSE rec_out.res = Raise("ValueError")

\* a key with an odd Y was tweaked
C24_Witness ==
    /\ TweakCalled
    /\ rec_out.pub_key[2] % 2 = 1
    /\ Tweakable(rec_out.pub_key[1])
    /\ rec_out.res.exc = "none"

-----------------------------------------------------------------------------
(* C25..C28: the coarse pass, the refinement pass and the exact pass *)

\* a marker starts at offset o of the device
MarkerAt(dev, o) ==
    \E p \in 1..Len(prekeys) :
        /\ o + Len(prekeys[p]) <= Len(dev.data)
        /\ SubSeq(dev.data, o + 1, o + Len(prekeys[p])) = prekeys[p]

\* the blocks of inc bytes of the device are numbered from 0
BlockCount(dev, inc) == (Len(dev.data) + inc - 1) \div inc

\* a marker lies wholly inside block b
BlockHasMarker(dev, inc, b) ==
    \E o \in (b * inc)..((b + 1) * inc - Len(prekeys[1])) : MarkerAt(dev, o)

\* the first blocks of the maximal runs of blocks with a marker, in order
RunStarts(dev, inc) ==
    SelectSeq([n \in 1..BlockCount(dev, inc) |-> n - 1],
              LAMBDA b : /\ BlockHasMarker(dev, inc, b)
                         /\ IF b = 0 THEN TRUE ELSE ~BlockHasMarker(dev, inc, b - 1))

\* the block after the run that starts at block b
RunEnd(dev, inc, b) ==
    CHOOSE e \in (b + 1)..BlockCount(dev, inc) :
        /\ \A m \in b..(e - 1) : BlockHasMarker(dev, inc, m)
        /\ IF e = BlockCount(dev, inc) THEN TRUE ELSE ~BlockHasMarker(dev, inc, e)

FirstReadDone == scan.pass = "first_read" /\ device.bad = {}

\* C25: over a device whose reads all succeed, first_read returns a list of
\* even length, strictly increasing, whose entries 2j and 2j+1 are the start
\* of the first block of the j-th maximal run of blocks with a marker and
\* the start of the block after that run; every run has its pair, also the
\* run that reaches the last block read
C25_CompletePairs ==
    FirstReadDone =>
        /\ Len(scan.ranges) = 2 * Len(RunStarts(device, scan.inc))
        /\ \A j \in 1..Len(RunStarts(device, scan.inc)) :
              /\ scan.ranges[2 * j - 1] = scan.inc * RunStarts(device, scan.inc)[j]
              /\ scan.ranges[2 * j]
                    = scan.inc * RunEnd(device, scan.inc, RunStarts(device, scan.inc)[j])
        /\ \A n \in 1..(Len(scan.ranges) - 1) : scan.ranges[n] < scan.ranges[n + 1]

\* the pipeline find_offsets(shrink_intervals(first_read(device))) has
\* returned or raised, over a device whose reads all succeed
PipelineDone ==
    /\ device.bad = {}
    /\ IF scan.pass = "shrink_intervals" THEN scan.exc # "none"
       ELSE scan.pass = "find_offsets"

\* the pipeline returned an offset list that holds c
Reported(c) ==
    /\ scan.pass = "find_offsets" /\ scan.exc = "none"
    /\ \E n \in 1..Len(scan.list_offsets) : scan.list_offsets[n] = c

\* the marker that starts at offset o lies wholly inside one block of inc bytes
InsideOneBlock(o, inc) == o \div inc = (o + Len(prekeys[1]) - 1) \div inc

\* C26: the offset of the last byte of every marker that lies wholly inside
\* one coarse block, the first and the last block included, is in the offset
\* list the pipeline returns, and every offset of that list is the last byte
\* of a marker
C26_MarkersReported ==
    PipelineDone =>
        /\ \A o \in 0..(Len(device.data) - Len(prekeys[1])) :
              MarkerAt(device, o) /\ InsideOneBlock(o, scan.inc[1])
                 => Reported(o + Len(prekeys[1]) - 1)
        /\ scan.pass = "find_offsets" /\ scan.exc = "none" =>
              \A n \in 1..Len(scan.list_offsets) :
                 /\ scan.list_offsets[n] >= Len(prekeys[1]) - 1
                 /\ MarkerAt(device, scan.list_offsets[n] - Len(prekeys[1]) + 1)

\* shrink_intervals has returned, over a device whose reads all succeed and
\* a coarse list of even length
ShrinkDone ==
    /\ scan.pass = "shrink_intervals" /\ scan.exc = "none"
    /\ device.bad = {}
    /\ Len(scan.coarse) % 2 = 0

\* what shrink_intervals appends for the j-th coarse interval alone
RefinedOf(j) ==
    shrink_intervals(device, <<scan.coarse[2 * j - 1], scan.coarse[2 * j]>>,
                     scan.inc[2]).val

\* the pair (s, e) lies within the j-th coarse interval widened by one
\* refinement block and the padding
WithinCoarse(s, e, j) ==
    /\ scan.coarse[2 * j - 1] - scan.inc[2] - 2 * PrekeyPad <= s
    /\ e <= scan.coarse[2 * j] + scan.inc[2] + 2 * PrekeyPad

\* C27: for a coarse list of even length shrink_intervals returns a list of
\* even length whose pairs (s, e) have s < e and lie within one coarse
\* interval widened by a refinement block and the padding; no coarse
\* interval leaves an open start that the next interval's first entry closes
C27_RefinedPairs ==
    ShrinkDone =>
        /\ Len(scan.ranges) % 2 = 0
        /\ \A n \in 1..(Len(scan.ranges) \div 2) :
              /\ scan.ranges[2 * n - 1] < scan.ranges[2 * n]
              /\ \E j \in 1..(Len(scan.coarse) \div 2) :
                    WithinCoarse(scan.ranges[2 * n - 1], scan.ranges[2 * n], j)
        /\ \A j \in 1..(Len(scan.coarse) \div 2) : Len(RefinedOf(j)) % 2 = 0

\* C28: shrink_intervals and find_offsets never seek to a negative offset
\* (os.lseek then raises OSError with EINVAL), also for an interval that
\* starts at offset 0, and complete without an operating-system error over
\* a device whose reads all succeed
C28_NoNegativeSeek ==
    scan.pass \in {"shrink_intervals", "find_offsets"} =>
        /\ scan.exc # "OSError(EINVAL)"
        /\ device.bad = {} => scan.exc = "none"

-----------------------------------------------------------------------------
(* C29, C30: the key entries of dump_wallet *)

\* dump_wallet of the manager has returned, with a passphrase, over a
\* stream that holds the master key record P_mkey_dump once and no other
ManagerDumpedOneMkey ==
    /\ consumer = "ComprehensiveWalletManager" /\ phase = "returned"
    /\ passphrase # <<>>
    /\ \E n \in 1..Len(db) :
          /\ db[n] = P_mkey_dump
          /\ \A m \in 1..Len(db) : m # n => db[m] \notin {P_mkey_dump, P_mkey_other}

\* the outcome of the decryption of a ckey payload that is delivered when
\* the master key of the returned snapshot is already stored
OutcomeAfterMkey(encrypted_private_key) ==
    decrypt_into_entry(network, [private_key |-> Str_ENCRYPTED],
                       unhexlify(encrypted_private_key), passphrase, wallet_data)

\* C29: in dump_wallet with a passphrase every ckey entry, wherever the
\* mkey record sits in the pair stream, ends with the private_key and the
\* decryption_status of a ckey delivered after the mkey record
C29_MkeyPositionIrrelevant ==
    ManagerDumpedOneMkey =>
        \A i \in CkeyEntries(wallet_data.keys) :
           /\ wallet_data.keys[i].private_key
                 = OutcomeAfterMkey(wallet_data.keys[i].encrypted_private_key).private_key
           /\ wallet_data.keys[i].decryption_status
                 = OutcomeAfterMkey(wallet_data.keys[i].encrypted_private_key).decryption_status

\* the well-formed pairs of the stream that hold a record of the given type
RecordsOf(record_type) ==
    {n \in 1..Len(db) :
        /\ db[n] \in WellFormedPairs
        /\ DecodePair(db[n].key, db[n].value).record_type = record_type}

DumpReturned ==
    /\ consumer \in {"WalletDumper", "ComprehensiveWalletManager"}
    /\ phase = "returned"

\* C30: after dump_wallet of either dumper the key list holds one entry for
\* each well-formed key record and one for each well-formed ckey record of
\* the stream, total_keys = encrypted_keys + unencrypted_keys,
\* unencrypted_keys is the number of key records and encrypted_keys the
\* number of ckey records
C30_OneEntryPerKeyRecord ==
    DumpReturned =>
        /\ Len(wallet_data.keys)
              = Cardinality(RecordsOf(Tag_key)) + Cardinality(RecordsOf(Tag_ckey))
        /\ wallet_data.statistics.total_keys
              = wallet_data.statistics.encrypted_keys
                   + wallet_data.statistics.unencrypted_keys
        /\ wallet_data.statistics.unencrypted_keys = Cardinality(RecordsOf(Tag_key))
        /\ wallet_data.statistics.encrypted_keys = Cardinality(RecordsOf(Tag_ckey))

====
